---------------------------- MODULE Spec2Model ----------------------------
(***************************************************************************)
(* Model of the population-structure core of the KDS application:          *)
(*   src/app/vcfFunctions.py     apply_quality_control, run_pca_analysis   *)
(*   src/app/data_processing.py  trigger_analysis_pipeline,                *)
(*                               parse_pooled_data,                        *)
(*                               analyze_fst_from_pooled_data              *)
(*   src/app/fst_calculations.py calculate_pairwise_fst, create_fst_matrix *)
(*                                                                         *)
(* Real numbers are exact rationals <<numerator, denominator>> with a      *)
(* positive denominator, reduced to lowest terms; <<0, 0>> stands for      *)
(* numpy's NaN.  The thresholds and matrices the specifications draw are   *)
(* chosen so that no comparison the code makes falls on a value that       *)
(* binary floating point would round to the other side.                    *)
(***************************************************************************)
EXTENDS Integers, Sequences, FiniteSets, TLC

VARIABLES
    pc,                 \* position of the running function
    vcf,                \* what allel.read_vcf delivers for the file, per read
    callset,            \* what read_vcf_for_analysis returned, or NoCallset
    gt,                 \* callset['calldata/GT']: variants x samples of calls
    samples_original,   \* callset['samples']
    thresholds,         \* [maf, snp_missing, ind_missing] of the run
    gt_bi,              \* variants after the biallelic filter
    gt_maf,             \* variants after the MAF filter
    maf_attempts,       \* how many times the MAF filter was evaluated
    gt_snp_filtered,    \* variants after the per-variant missingness filter
    gt_qc,              \* matrix after the per-sample missingness filter
    samples_after_qc,   \* identifiers of the retained samples
    qc_result,          \* what apply_quality_control returned, or NoResult
    err,                \* the error raised, or NoError
    shapes,             \* <<variants, samples>> after each completed QC stage
    pca,                \* locals of run_pca_analysis and of its caller
    df,                 \* the pooled table
    min_depth,          \* min_depth of the FST run
    fst_matrix,         \* the matrix create_fst_matrix is filling
    pair_calls,         \* the pool pairs calculate_pairwise_fst was called on
    contents,           \* the table in the file given to parse_pooled_data
    locus,              \* one qualifying locus inside calculate_pairwise_fst
    parsed              \* what parse_pooled_data returned

qcVars  == <<vcf, callset, gt, samples_original, thresholds, gt_bi, gt_maf, maf_attempts,
             gt_snp_filtered, gt_qc, samples_after_qc, qc_result, shapes>>
fstVars == <<df, min_depth, fst_matrix, pair_calls, contents, locus, parsed>>
vars    == <<pc, qcVars, err, pca, fstVars>>

-----------------------------------------------------------------------------
(* Bounds of the model.                                                    *)

MaxVariants == 3
MaxSamples == 2
\* and one wider shape over the calls of a clean diploid callset
MaxWideVariants == 2
MaxWideSamples == 3
\* PCA inputs: matrices of up to MaxPcaSamples x MaxPcaFeatures, and requested
\* component counts from -1 to MaxComponents
MaxPcaSamples == 4
MaxPcaFeatures == 4
MaxComponents == 6
\* FST inputs: tables of MaxLoci loci, the first 0..MaxSplit of one kind and
\* the others of a second kind
MaxLoci == 11
MaxSplit == 2

-----------------------------------------------------------------------------
(* Exact rational arithmetic.                                              *)

Abs(x) == IF x < 0 THEN -x ELSE x

RECURSIVE Gcd(_, _)
Gcd(a, b) == IF b = 0 THEN a ELSE Gcd(b, a % b)

NaN == <<0, 0>>
IsNaN(x) == x[2] = 0

Norm(n, d) ==
    IF d = 0 THEN NaN
    ELSE LET g == Gcd(Abs(n), Abs(d))
             s == IF d < 0 THEN -1 ELSE 1
         IN  <<s * (n \div g), s * (d \div g)>>

R(n) == <<n, 1>>
Frac(n, d) == Norm(n, d)

\* numpy arithmetic: NaN in, NaN out.  Common factors are divided out before
\* multiplying, which keeps the integers small
Neg(x) == <<-x[1], x[2]>>
Inv(x) == IF x[1] < 0 THEN <<-x[2], -x[1]>> ELSE <<x[2], x[1]>>
Add(x, y) ==
    IF IsNaN(x) \/ IsNaN(y) THEN NaN
    ELSE LET g == Gcd(x[2], y[2])
         IN  Norm(x[1] * (y[2] \div g) + y[1] * (x[2] \div g), (x[2] \div g) * y[2])
Sub(x, y) == IF IsNaN(x) \/ IsNaN(y) THEN NaN ELSE Add(x, Neg(y))
Mul(x, y) ==
    IF IsNaN(x) \/ IsNaN(y) THEN NaN
    ELSE IF x[1] = 0 \/ y[1] = 0 THEN <<0, 1>>
    ELSE LET g1 == Gcd(Abs(x[1]), y[2])
             g2 == Gcd(Abs(y[1]), x[2])
         IN  <<(x[1] \div g1) * (y[1] \div g2), (x[2] \div g2) * (y[2] \div g1)>>
\* x / y for y # 0
Div(x, y) == IF IsNaN(x) \/ IsNaN(y) THEN NaN ELSE Mul(x, Inv(y))

\* comparisons: every comparison with NaN is false, as in numpy
Lt(x, y) == ~IsNaN(x) /\ ~IsNaN(y) /\ x[1] * y[2] < y[1] * x[2]
Le(x, y) == ~IsNaN(x) /\ ~IsNaN(y) /\ x[1] * y[2] <= y[1] * x[2]
Gt(x, y) == Lt(y, x)
Ge(x, y) == Le(y, x)
IsZero(x) == ~IsNaN(x) /\ x[1] = 0

\* np.clip(x, 0, 1): NaN stays NaN
Clip01(x) == IF IsNaN(x) THEN NaN
             ELSE IF Lt(x, R(0)) THEN R(0)
             ELSE IF Gt(x, R(1)) THEN R(1) ELSE x

Range(s) == {s[i] : i \in DOMAIN s}

RECURSIVE SumSeq(_)
SumSeq(s) == IF s = <<>> THEN 0 ELSE Head(s) + SumSeq(Tail(s))

\* np.sum of a sequence of rationals
RECURSIVE RSum(_)
RSum(s) == IF s = <<>> THEN R(0) ELSE Add(Head(s), RSum(Tail(s)))

\* a[mask]: the elements of s whose mask entry is TRUE, in order
RECURSIVE Compress(_, _)
Compress(s, mask) ==
    IF s = <<>> THEN <<>>
    ELSE (IF Head(mask) THEN <<Head(s)>> ELSE <<>>) \o Compress(Tail(s), Tail(mask))

-----------------------------------------------------------------------------
(* scikit-allel's GenotypeArray, as apply_quality_control uses it.  A call *)
(* is a pair of alleles; a negative allele is a missing allele.            *)

Calls == {<<0, 0>>, <<0, 1>>, <<1, 1>>, <<-1, -1>>, <<0, -1>>, <<1, 2>>}
\* the calls of a clean diploid 0/1 callset, with whole-call missingness
DiploidCalls == {<<0, 0>>, <<0, 1>>, <<1, 1>>, <<-1, -1>>}

\* gt.count_alleles(): how often allele a is called in the row
AlleleCount(row, a) ==
    Cardinality({j \in DOMAIN row : row[j][1] = a})
    + Cardinality({j \in DOMAIN row : row[j][2] = a})
\* the number of called (non-missing) alleles of the row
CalledAlleles(row) ==
    Cardinality({j \in DOMAIN row : row[j][1] >= 0})
    + Cardinality({j \in DOMAIN row : row[j][2] >= 0})
\* the alleles with a nonzero count
ObservedAlleles(row) ==
    {a \in {row[j][1] : j \in DOMAIN row} \cup {row[j][2] : j \in DOMAIN row} : a >= 0}

\* a faulty test that also lets a variant with a single observed allele through
HasObservedAllele(row) == Cardinality(ObservedAlleles(row)) >= 1
\* ac.is_biallelic(): exactly two alleles observed
IsBiallelic(row) == Cardinality(ObservedAlleles(row)) = 2
\* ac.is_biallelic_01(): exactly two alleles observed and the highest is 1
IsBiallelic01(row) == IsBiallelic(row) /\ \A a \in ObservedAlleles(row) : a <= 1

\* ac_bi.to_frequencies()[:, 1] with NaN (no called allele) replaced by 0
Aaf(row) == IF CalledAlleles(row) = 0 THEN R(0)
            ELSE Frac(AlleleCount(row, 1), CalledAlleles(row))

\* a call is missing when any of its alleles is
IsMissingCall(c) == c[1] < 0 \/ c[2] < 0
\* gt.count_missing(axis=1) for one row; and axis=0 for one sample column
CountMissingRow(row) == Cardinality({j \in DOMAIN row : IsMissingCall(row[j])})
CountMissingCol(m, j) == Cardinality({i \in DOMAIN m : IsMissingCall(m[i][j])})

\* gt.to_n_alt(fill=-1): the number of non-reference alleles, -1 when missing
NAlt(c) == IF IsMissingCall(c) THEN -1
           ELSE (IF c[1] > 0 THEN 1 ELSE 0) + (IF c[2] > 0 THEN 1 ELSE 0)

NumSamples(m) == IF m = <<>> THEN 0 ELSE Len(m[1])

\* a faulty test that lets the frequencies t and 1 - t through
PassesMafInclusive(row, t) == Ge(Aaf(row), t) /\ Le(Aaf(row), Sub(R(1), t))
\* the MAF test of one variant against a threshold t
PassesMaf(row, t) == Gt(Aaf(row), t) /\ Lt(Aaf(row), Sub(R(1), t))

\* missing_snp_prop of one row; missing_ind_prop of one sample
MissingSnpProp(m, i) == Frac(CountMissingRow(m[i]), NumSamples(m))
MissingIndProp(m, j) == Frac(CountMissingCol(m, j), Len(m))

\* gn[gn != -1].std() == 0: there are called dosages and they are all equal
CalledDosages(m) ==
    {NAlt(m[i][j]) : i \in DOMAIN m, j \in 1..NumSamples(m)} \ {-1}
NoVariation(m) == Cardinality(CalledDosages(m)) = 1

\* SimpleImputer(missing_values=-1, strategy="mean") on gn.T: the mean of a
\* variant over its called dosages; a variant with no called dosage has no
\* mean and its column is dropped from the output
CalledIdx(row) == {j \in DOMAIN row : ~IsMissingCall(row[j])}
RECURSIVE SumDosage(_, _)
SumDosage(row, S) ==
    IF S = {} THEN 0
    ELSE LET j == CHOOSE x \in S : TRUE
         IN  NAlt(row[j]) + SumDosage(row, S \ {j})
MeanDosage(row) == Frac(SumDosage(row, CalledIdx(row)), Cardinality(CalledIdx(row)))
KeptByImputer(m) == Compress([i \in DOMAIN m |-> i],
                             [i \in DOMAIN m |-> CalledIdx(m[i]) # {}])
\* a faulty imputer that leaves the -1 of a missing call in place
DosageCell(row, j) == R(NAlt(row[j]))
ImputeCell(row, j) == IF IsMissingCall(row[j]) THEN MeanDosage(row)
                      ELSE R(NAlt(row[j]))
\* gn_imputed_transposed: samples x kept variants
ImputeTransposed(m) ==
    LET kept == KeptByImputer(m)
    IN  [j \in 1..NumSamples(m) |->
            [k \in DOMAIN kept |-> ImputeCell(m[kept[k]], j)]]

-----------------------------------------------------------------------------
(* apply_quality_control, one action per stage.                            *)

NoError == "none"
NoResult == [returned |-> FALSE]
NoPca == [called |-> FALSE]
NoTable == <<>>

\* the matrices read_vcf_for_analysis can hand over: at least one variant
\* and at least one sample
Matrices ==
    UNION {[1..v -> [1..s -> Calls]] : v \in 1..MaxVariants, s \in 1..MaxSamples}
    \cup [1..MaxWideVariants -> [1..MaxWideSamples -> DiploidCalls]]

MafThresholds == {Frac(1, 20), Frac(1, 2)}
SnpMissingThresholds == {R(0), Frac(1, 5), R(1)}
IndMissingThresholds == {Frac(1, 2), R(1)}

NoLocus == <<>>
\* read_vcf_for_analysis is not running
NoSource == <<>>
NoCallset == [kind |-> "none"]
IdleRead ==
    /\ vcf = NoSource
    /\ callset = NoCallset

IdleFst ==
    /\ df = NoTable
    /\ min_depth = 0
    /\ fst_matrix = <<>>
    /\ pair_calls = <<>>
    /\ contents = NoTable
    /\ locus = NoLocus
    /\ parsed = NoResult

InitQC ==
    /\ pc = "biallelic"
    /\ IdleRead
    /\ gt \in Matrices
    /\ samples_original = [j \in 1..NumSamples(gt) |-> j]
    /\ thresholds \in [maf : MafThresholds, snp_missing : SnpMissingThresholds,
                       ind_missing : IndMissingThresholds]
    /\ gt_bi = <<>>
    /\ gt_maf = <<>>
    /\ maf_attempts = 0
    /\ gt_snp_filtered = <<>>
    /\ gt_qc = <<>>
    /\ samples_after_qc = <<>>
    /\ qc_result = NoResult
    /\ err = NoError
    /\ shapes = <<<<Len(gt), NumSamples(gt)>>>>
    /\ pca = NoPca
    /\ IdleFst

Raise(e) == /\ pc' = "raised"
            /\ err' = e

\* a faulty filter that returns the rows of both masks, one after the other
BiallelicFilterBoth(m) ==
    Compress(m, [i \in DOMAIN m |-> IsBiallelic01(m[i])])
    \o Compress(m, [i \in DOMAIN m |-> IsBiallelic(m[i])])
\* a faulty filter that applies the looser test from the start
BiallelicFilterLoose(m) ==
    Compress(m, [i \in DOMAIN m |-> IsBiallelic(m[i])])
\* lines 55-62: the variants coded {0,1}; only when there are none, the
\* variants with any two alleles
BiallelicFilter(m) ==
    LET strict == Compress(m, [i \in DOMAIN m |-> IsBiallelic01(m[i])])
    IN  IF strict # <<>> THEN strict
        ELSE Compress(m, [i \in DOMAIN m |-> IsBiallelic(m[i])])

\* a faulty stage that goes on with whatever the filter left, even nothing
BiallelicStageNoCheck ==
    /\ pc = "biallelic"
    /\ \E bi \in {BiallelicFilter(gt)} :
           /\ gt_bi' = bi
           /\ shapes' = Append(shapes, <<Len(bi), NumSamples(gt)>>)
    /\ pc' = "maf"
    /\ UNCHANGED <<vcf, callset, gt, samples_original, thresholds, gt_maf,
                   maf_attempts, gt_snp_filtered, gt_qc, samples_after_qc,
                   qc_result, err, pca, fstVars>>

\* lines 55-66: the biallelic filter and its fallback
\* (\E x \in {e} binds x to the value of e, evaluated once)
BiallelicStage ==
    /\ pc = "biallelic"
    /\ \E bi \in {BiallelicFilter(gt)} :
           IF bi = <<>>
           THEN /\ Raise("No biallelic SNPs found")
                /\ UNCHANGED <<gt_bi, shapes>>
           ELSE /\ gt_bi' = bi
                /\ shapes' = Append(shapes, <<Len(bi), NumSamples(bi)>>)
                /\ pc' = "maf"
                /\ err' = err
    /\ UNCHANGED <<vcf, callset, gt, samples_original, thresholds, gt_maf, maf_attempts,
                   gt_snp_filtered, gt_qc, samples_after_qc, qc_result, pca, fstVars>>

\* the message of the MAF failure formats aaf[aaf < 0.5].max(); on an empty
\* selection numpy raises its own ValueError before the message exists
MafFailure(m) ==
    IF \E i \in DOMAIN m : Lt(Aaf(m[i]), Frac(1, 2))
    THEN "No SNPs passed MAF filter"
    ELSE "zero-size array to reduction operation maximum"

\* lines 74-80: the filter at the threshold; only when nothing passes, the
\* filter once more at half the threshold
MafFilter(m, t) ==
    LET first == Compress(m, [i \in DOMAIN m |-> PassesMaf(m[i], t)])
    IN  IF first # <<>> THEN [kept |-> first, attempts |-> 1]
        ELSE [kept |-> Compress(m, [i \in DOMAIN m |->
                                       PassesMaf(m[i], Div(t, R(2)))]),
              attempts |-> 2]

\* lines 68-85: the MAF filter and its one retry at half the threshold
MafStage ==
    /\ pc = "maf"
    /\ \E f \in {MafFilter(gt_bi, thresholds.maf)} :
           /\ maf_attempts' = f.attempts
           /\ IF f.kept = <<>>
              THEN /\ Raise(MafFailure(gt_bi))
                   /\ UNCHANGED <<gt_maf, shapes>>
              ELSE /\ gt_maf' = f.kept
                   /\ shapes' = Append(shapes, <<Len(f.kept), NumSamples(f.kept)>>)
                   /\ pc' = "snp_missing"
                   /\ err' = err
    /\ UNCHANGED <<vcf, callset, gt, samples_original, thresholds, gt_bi,
                   gt_snp_filtered, gt_qc, samples_after_qc, qc_result, pca, fstVars>>

\* a faulty filter that also keeps a variant whose fraction is the threshold
SnpMissingFilterInclusive(m, t) ==
    Compress(m, [i \in DOMAIN m |-> Le(MissingSnpProp(m, i), t)])
\* lines 87-89: the variants whose missing fraction is below the threshold
SnpMissingFilter(m, t) ==
    Compress(m, [i \in DOMAIN m |-> Lt(MissingSnpProp(m, i), t)])

\* lines 92-95: the message formats missing_snp_prop.min(), which numpy
\* computes for a non-empty array only
SnpMissingFailure(m) ==
    IF m # <<>> THEN "No SNPs passed missingness filter"
    ELSE "zero-size array to reduction operation minimum"

\* lines 87-96: the per-variant missingness filter
SnpMissingStage ==
    /\ pc = "snp_missing"
    /\ \E kept \in {SnpMissingFilter(gt_maf, thresholds.snp_missing)} :
           IF kept = <<>>
           THEN /\ Raise(SnpMissingFailure(gt_maf))
                /\ UNCHANGED <<gt_snp_filtered, shapes>>
           ELSE /\ gt_snp_filtered' = kept
                /\ shapes' = Append(shapes, <<Len(kept), NumSamples(kept)>>)
                /\ pc' = "ind_missing"
                /\ err' = err
    /\ UNCHANGED <<vcf, callset, gt, samples_original, thresholds, gt_bi, gt_maf, maf_attempts,
                   gt_qc, samples_after_qc, qc_result, pca, fstVars>>

\* gt.compress(mask, axis=1): the sample columns selected by the mask
CompressColumns(m, mask) == [i \in DOMAIN m |-> Compress(m[i], mask)]

\* a faulty mask that takes the fraction over the variants of the callset
IndMissingMaskOriginal(m, t) ==
    [j \in 1..NumSamples(m) |-> Lt(MissingIndProp(gt, j), t)]
\* lines 98-99: the samples whose missing fraction, over the variants that
\* are left, is below the threshold
IndMissingMask(m, t) ==
    [j \in 1..NumSamples(m) |-> Lt(MissingIndProp(m, j), t)]

\* lines 98-114: the per-sample missingness filter and the final check
IndMissingStage ==
    /\ pc = "ind_missing"
    /\ \E mask \in {IndMissingMask(gt_snp_filtered, thresholds.ind_missing)} :
       \E qc \in {CompressColumns(gt_snp_filtered, mask)} :
           /\ gt_qc' = qc
           /\ samples_after_qc' = Compress(samples_original, mask)
           /\ IF NumSamples(qc) = 0
              THEN /\ Raise("No samples passed missingness filter")
                   /\ UNCHANGED shapes
              ELSE IF Len(qc) = 0 \/ NumSamples(qc) = 0
              THEN /\ Raise("No data remaining after quality control")
                   /\ UNCHANGED shapes
              ELSE /\ shapes' = Append(shapes, <<Len(qc), NumSamples(qc)>>)
                   /\ pc' = "impute"
                   /\ err' = err
    /\ UNCHANGED <<vcf, callset, gt, samples_original, thresholds, gt_bi, gt_maf, maf_attempts,
                   gt_snp_filtered, qc_result, pca, fstVars>>

\* lines 114-125: dosages, the variation check, mean imputation, the return
ImputeStage ==
    /\ pc = "impute"
    /\ IF NoVariation(gt_qc)
       THEN /\ Raise("No genetic variation remaining after QC")
            /\ UNCHANGED qc_result
       ELSE /\ qc_result' = [returned |-> TRUE,
                             gn_imputed_transposed |-> ImputeTransposed(gt_qc),
                             samples_after_qc |-> samples_after_qc,
                             snps_original_count |-> Len(gt),
                             snps_after_qc_count |-> Len(gt_qc),
                             samples_original_count |-> NumSamples(gt)]
            /\ pc' = "qc_returned"
            /\ err' = err
    /\ UNCHANGED <<vcf, callset, gt, samples_original, thresholds, gt_bi, gt_maf, maf_attempts,
                   gt_snp_filtered, gt_qc, samples_after_qc, shapes, pca, fstVars>>

NextQC == BiallelicStage \/ MafStage \/ SnpMissingStage \/ IndMissingStage
          \/ ImputeStage

SpecQC == InitQC /\ [][NextQC]_vars

-----------------------------------------------------------------------------
(* run_pca_analysis and the part of trigger_analysis_pipeline that calls   *)
(* it.  The matrix is known by its shape: n_samples x n_features.          *)

Min2(a, b) == IF a <= b THEN a ELSE b
Max2(a, b) == IF a >= b THEN a ELSE b

IdleQC ==
    /\ IdleRead
    /\ gt = <<>>
    /\ samples_original = <<>>
    /\ thresholds = <<>>
    /\ gt_bi = <<>>
    /\ gt_maf = <<>>
    /\ maf_attempts = 0
    /\ gt_snp_filtered = <<>>
    /\ gt_qc = <<>>
    /\ samples_after_qc = <<>>
    /\ qc_result = NoResult
    /\ shapes = <<>>

ComponentRequests == (-1)..MaxComponents

\* the states numpy's global random generator can have been left in
MaxRngState == 2
RngStates == 0..MaxRngState

NoOutput == <<>>

\* either trigger_analysis_pipeline has just got (gn_imputed_T, samples_qc)
\* back from apply_quality_control, which retains at least one sample, or
\* run_pca_analysis is called by itself on a matrix of any shape.  Of the
\* content of the matrix the model knows whether every feature is constant
\* over the samples (constant_features), as it is for integer dosages such
\* as [[0, 1], [0, 1]]; a matrix with at most one sample has nothing else.
InitPCA ==
    /\ \E caller \in {"trigger", "direct"}, n \in 0..MaxPcaSamples,
          f \in 0..MaxPcaFeatures, k \in ComponentRequests,
          c \in BOOLEAN, g \in RngStates :
           /\ caller = "trigger" => n >= 1
           /\ (n <= 1 \/ f = 0) => c
           /\ pc = IF caller = "trigger" THEN "trigger_pca" ELSE "pca_validate"
           /\ pca = [caller |-> caller, called |-> caller = "direct",
                     n_samples |-> n, n_features |-> f,
                     constant_features |-> c,
                     n_pca_components |-> k, n_components |-> k,
                     actual_n_components |-> 0,
                     scaled |-> FALSE, fitted |-> FALSE,
                     pcs_shape |-> <<>>, variance_len |-> 0, num_pcs_generated |-> 0,
                     global_rng |-> g, run |-> 1,
                     out |-> NoOutput, first_out |-> NoOutput]
    /\ err = NoError
    /\ IdleQC
    /\ IdleFst

\* a faulty count that caps the request at n_samples instead of n_samples - 1
TriggerComponentsNoLoss(n_samples, n_features, k) ==
    LET max_possible_components == Min2(n_samples, n_features)
        actual == Min2(k, max_possible_components)
    IN  IF actual < 1
        THEN (IF max_possible_components >= 1 THEN 1 ELSE 0)
        ELSE actual

\* data_processing.py lines 124-132: the component count the caller asks for
TriggerComponents(n_samples, n_features, k) ==
    LET max_possible_components == Min2(n_samples - 1, n_features)
        actual == Min2(k, max_possible_components)
    IN  IF actual < 1
        THEN (IF max_possible_components >= 1 THEN 1 ELSE 0)
        ELSE actual

\* data_processing.py lines 119-122: the checks on what QC returned
TriggerInputError(n_samples, n_features) ==
    IF n_samples < 2 THEN "Jumlah sampel tidak cukup untuk PCA setelah QC"
    ELSE IF n_features < 1 THEN "Tidak ada SNP tersisa setelah QC"
    ELSE NoError

\* data_processing.py lines 119-137: the checks before PCA and the call
TriggerPca ==
    /\ pc = "trigger_pca"
    /\ IF TriggerInputError(pca.n_samples, pca.n_features) # NoError
       THEN /\ Raise(TriggerInputError(pca.n_samples, pca.n_features))
            /\ UNCHANGED pca
       ELSE \E a \in {TriggerComponents(pca.n_samples, pca.n_features,
                                         pca.n_pca_components)} :
              IF a < 1
              THEN /\ Raise("Data tidak cukup untuk menghitung komponen PCA")
                   /\ UNCHANGED pca
              ELSE /\ pca' = [pca EXCEPT !.called = TRUE, !.n_components = a]
                   /\ pc' = "pca_validate"
                   /\ err' = err
    /\ UNCHANGED <<qcVars, fstVars>>

\* a faulty validation that accepts a single sample
PcaInputErrorOneSample(n_samples, n_features) ==
    IF n_samples < 1 THEN "PCA requires at least 2 samples"
    ELSE IF n_features < 1 THEN "PCA requires at least 1 feature (SNP)"
    ELSE NoError

\* vcfFunctions.py lines 137-144: the checks on the matrix
PcaInputError(n_samples, n_features) ==
    IF n_samples < 2 THEN "PCA requires at least 2 samples"
    ELSE IF n_features < 1 THEN "PCA requires at least 1 feature (SNP)"
    ELSE NoError

\* a faulty count that leaves n_samples - 1 out of the minimum
ComponentsIgnoringSamples(n_samples, n_features, n_components) ==
    Max2(1, Min2(n_features, n_components))

\* vcfFunctions.py lines 146-148
ActualComponents(n_samples, n_features, n_components) ==
    Max2(1, Min2(Min2(n_samples - 1, n_features), n_components))

\* vcfFunctions.py lines 137-150: validation and the component count
PcaValidate ==
    /\ pc = "pca_validate"
    /\ IF PcaInputError(pca.n_samples, pca.n_features) # NoError
       THEN /\ Raise(PcaInputError(pca.n_samples, pca.n_features))
            /\ UNCHANGED pca
       ELSE /\ pca' = [pca EXCEPT !.actual_n_components =
                          ActualComponents(pca.n_samples, pca.n_features,
                                           pca.n_components)]
            /\ pc' = "pca_scale"
            /\ err' = err
    /\ UNCHANGED <<qcVars, fstVars>>

\* vcfFunctions.py lines 153-155: StandardScaler().fit_transform
PcaScale ==
    /\ pc = "pca_scale"
    /\ pca' = [pca EXCEPT !.scaled = TRUE]
    /\ pc' = "pca_fit"
    /\ UNCHANGED <<qcVars, err, fstVars>>

\* a faulty seed: random_state=None, which draws from the global generator
PcaSeedFromGlobal(global_rng) == global_rng
\* vcfFunctions.py line 158: random_state=42
PcaSeed(global_rng) == 42

\* vcfFunctions.py lines 153-160: what the fresh StandardScaler and PCA
\* objects return.  Constant features standardise to all-zero columns, whose
\* singular values and total variance are 0: the coordinates are 0 and each
\* variance ratio is 0/0, NaN.  Otherwise a coordinate matrix and a ratio
\* are known by what the estimators were given: the matrix, the component
\* count and the seed.
PcaOutput(n_samples, n_features, constant_features, k, seed) ==
    [pcs |-> [shape |-> <<n_samples, k>>,
              matrix |-> <<n_samples, n_features, constant_features>>,
              seed |-> seed, finite |-> TRUE],
     explained_variance_ratio |->
         [i \in 1..k |-> [nan |-> constant_features, component |-> i,
                          matrix |-> <<n_samples, n_features, constant_features>>,
                          seed |-> seed]]]

\* vcfFunctions.py lines 158-160: PCA(n_components).fit_transform gives one
\* column and one variance ratio per component; scikit-learn refuses a
\* component count above min(n_samples, n_features)
PcaFit ==
    /\ pc = "pca_fit"
    /\ IF pca.actual_n_components > Min2(pca.n_samples, pca.n_features)
       THEN /\ Raise("n_components must be between 0 and min(n_samples, n_features)")
            /\ UNCHANGED pca
       ELSE /\ pca' = [pca EXCEPT !.fitted = TRUE,
                          !.pcs_shape = <<pca.n_samples, pca.actual_n_components>>,
                          !.variance_len = pca.actual_n_components,
                          !.out = PcaOutput(pca.n_samples, pca.n_features,
                                            pca.constant_features,
                                            pca.actual_n_components,
                                            PcaSeed(pca.global_rng))]
            /\ pc' = "pca_check"
            /\ err' = err
    /\ UNCHANGED <<qcVars, fstVars>>

\* vcfFunctions.py lines 163-169 (only the coordinates are tested for NaN
\* and Inf), data_processing.py lines 139-155: the
\* result is checked and returned, and the caller reads its column count
PcaReturn ==
    /\ pc = "pca_check"
    /\ IF pca.pcs_shape[1] # pca.n_samples
       THEN /\ Raise("PCA output has incorrect number of samples")
            /\ UNCHANGED pca
       ELSE IF ~pca.out.pcs.finite
       THEN /\ Raise("PCA produced invalid values (NaN or Inf)")
            /\ UNCHANGED pca
       ELSE /\ pca' = [pca EXCEPT !.num_pcs_generated =
                          IF pca.caller = "trigger" THEN pca.pcs_shape[2] ELSE 0]
            /\ pc' = IF pca.caller = "trigger" THEN "trigger_returned"
                     ELSE "pca_returned"
            /\ err' = err
    /\ UNCHANGED <<qcVars, fstVars>>

\* run_pca_analysis is called once more on the same matrix with the same
\* n_components; the global random generator is in whatever state other
\* code left it
PcaCallAgain ==
    /\ pc = "pca_returned"
    /\ pca.run = 1
    /\ \E g \in RngStates :
           pca' = [pca EXCEPT !.run = 2, !.global_rng = g,
                              !.first_out = pca.out, !.out = NoOutput,
                              !.actual_n_components = 0,
                              !.scaled = FALSE, !.fitted = FALSE,
                              !.pcs_shape = <<>>, !.variance_len = 0]
    /\ pc' = "pca_validate"
    /\ UNCHANGED <<qcVars, err, fstVars>>

NextPCA == TriggerPca \/ PcaValidate \/ PcaScale \/ PcaFit \/ PcaReturn
           \/ PcaCallAgain

SpecPCA == InitPCA /\ [][NextPCA]_vars

-----------------------------------------------------------------------------
(* fst_calculations.py.  A pooled table is                                 *)
(*   [n |-> rows, ref |-> [pool |-> column], depth |-> [pool |-> column]]  *)
(* where DOMAIN ref are the pools with a reference_count_<pool> column and *)
(* DOMAIN depth those with a pool_depth_<pool> column; cells are integers. *)
(* Pools are numbered in the sorted order of their names.                  *)

MinQualifyingSnps == 10

\* a set of integers as the ascending sequence sorted() gives
RECURSIVE SortedSeq(_)
SortedSeq(S) ==
    IF S = {} THEN <<>>
    ELSE LET m == CHOOSE x \in S : \A y \in S : x <= y
         IN  <<m>> \o SortedSeq(S \ {m})

\* lines 6-9
extract_pool_names(t) == SortedSeq(DOMAIN t.ref)

\* lines 15-16: both columns of the pool must exist
HasColumns(t, pool) == pool \in DOMAIN t.ref /\ pool \in DOMAIN t.depth

\* lines 18-26: ref_count / depth where depth > 0, else 0; and the mask
Freq(t, pool, l) ==
    IF t.depth[pool][l] > 0 THEN Frac(t.ref[pool][l], t.depth[pool][l]) ELSE R(0)
ValidMask(t, pool, l) == t.depth[pool][l] > 0

\* a faulty mask that asks min_depth of the first pool only
QualifyingFirstPoolDeep(t, p1, p2, md, l) ==
    /\ ValidMask(t, p1, l) /\ ValidMask(t, p2, l)
    /\ t.depth[p1][l] >= md
\* a faulty mask that forgets min_depth
QualifyingAnyDepth(t, p1, p2, md, l) ==
    ValidMask(t, p1, l) /\ ValidMask(t, p2, l)
\* line 37
Qualifying(t, p1, p2, md, l) ==
    /\ ValidMask(t, p1, l) /\ ValidMask(t, p2, l)
    /\ t.depth[p1][l] >= md /\ t.depth[p2][l] >= md
QualifyingLoci(t, p1, p2, md) ==
    Compress([l \in 1..t.n |-> l], [l \in 1..t.n |-> Qualifying(t, p1, p2, md, l)])

\* lines 50-77 at one locus: the components s2, a, b, c; NaN where the
\* code's "problem" masks leave the np.nan the arrays are created with
\* a faulty variance that divides by n1 + n2
S2Biased(p1, p2, n1, n2) ==
    Div(Add(Mul(R(n1), Mul(p1, Sub(R(1), p1))),
            Mul(R(n2), Mul(p2, Sub(R(1), p2)))), R(n1 + n2))
S2(p1, p2, n1, n2) ==
    IF n1 + n2 - 1 <= 0 THEN NaN
    ELSE Div(Add(Mul(R(n1), Mul(p1, Sub(R(1), p1))),
                 Mul(R(n2), Mul(p2, Sub(R(1), p2)))), R(n1 + n2 - 1))
NcVal(n1, n2) == Sub(R(n1 + n2), Frac(n1 * n1 + n2 * n2, n1 + n2))
CorrectionTerm(p1, p2, n1, n2) ==
    IF 2 * (n1 + n2) - 1 <= 0 THEN NaN
    ELSE Mul(Frac(1, 2 * (n1 + n2) - 1),
             Add(Mul(R(n1), Mul(p1, Sub(R(1), p1))),
                 Mul(R(n2), Mul(p2, Sub(R(1), p2)))))
\* a faulty component with the difference the other way round
CompASwapped(nc_val, s2, correction_term) ==
    LET nc_minus_1 == Sub(nc_val, R(1))
    IN  IF Le(nc_minus_1, R(0)) \/ IsNaN(nc_minus_1) \/ IsNaN(s2)
           \/ IsNaN(correction_term)
        THEN NaN
        ELSE Mul(Div(nc_val, nc_minus_1), Sub(correction_term, s2))
\* lines 69-71
CompA(nc_val, s2, correction_term) ==
    LET nc_minus_1 == Sub(nc_val, R(1))
    IN  IF Le(nc_minus_1, R(0)) \/ IsNaN(nc_minus_1) \/ IsNaN(s2)
           \/ IsNaN(correction_term)
        THEN NaN
        ELSE Mul(Div(nc_val, nc_minus_1), Sub(s2, correction_term))
\* line 77
CompC(p1, p2) == Mul(Frac(1, 2), Mul(Sub(p1, p2), Sub(p1, p2)))

\* the components of one locus
LocusComponents(p1, p2, n1, n2) ==
    LET s2 == S2(p1, p2, n1, n2)
        correction_term == CorrectionTerm(p1, p2, n1, n2)
    IN  [s2 |-> s2,
         a  |-> CompA(NcVal(n1, n2), s2, correction_term),
         b  |-> correction_term,
         c  |-> CompC(p1, p2)]

\* lines 79-80
NumeratorFst(k) == Add(Add(k.a, k.b), k.c)
DenominatorFst(k) == Add(Add(Add(k.a, k.b), k.c), k.s2)

\* a faulty ratio that divides wherever the components are defined
RawLocusFstDivides(num, den) ==
    IF IsNaN(num) \/ IsNaN(den) \/ IsZero(den) THEN NaN ELSE Div(num, den)
\* lines 82-93: the ratio, with the two zero-denominator cases
RawLocusFst(num, den) ==
    IF IsNaN(num) \/ IsNaN(den) THEN NaN
    ELSE IF ~IsZero(den) THEN Div(num, den)
    ELSE IF IsZero(num) THEN R(0) ELSE R(1)

\* lines 82-95
FstOfComponents(k) == Clip01(RawLocusFst(NumeratorFst(k), DenominatorFst(k)))
FstPerLocus(p1, p2, n1, n2) == FstOfComponents(LocusComponents(p1, p2, n1, n2))

\* The <<reference_count, pool_depth>> cells of the tables the FST
\* specification draws: no reads, one read, two reads with reference
\* frequency 1/2, and ten and twelve reads with frequency 0 or 1.  With these
\* the exact per-locus values and their weighted sums stay within TLC's
\* 32-bit integers.
CellList == <<<<0, 0>>, <<1, 1>>, <<1, 2>>, <<0, 10>>, <<10, 10>>,
              <<0, 12>>, <<12, 12>>>>
FstCells == Range(CellList)

\* FstPerLocus tabulated once for every pair of these cells that has reads in
\* both pools, so that the model checker does not redo the arithmetic at
\* every locus of every table
CellFst(c1, c2) ==
    IF c1[2] > 0 /\ c2[2] > 0
    THEN FstPerLocus(Frac(c1[1], c1[2]), Frac(c2[1], c2[2]), c1[2], c2[2])
    ELSE NaN
RECURSIVE CellFstRow(_, _)
CellFstRow(i, j) ==
    IF j > Len(CellList) THEN <<>>
    ELSE <<CellFst(CellList[i], CellList[j])>> \o CellFstRow(i, j + 1)
RECURSIVE CellFstRows(_)
CellFstRows(i) ==
    IF i > Len(CellList) THEN <<>>
    ELSE <<CellFstRow(i, 1)>> \o CellFstRows(i + 1)
LocusFstTable == CellFstRows(1)
CellIndex(c) == CHOOSE i \in DOMAIN CellList : CellList[i] = c

\* fst_per_locus at locus l, a qualifying locus of the two pools
LocusFst(t, pool1, pool2, l) ==
    LET c1 == <<t.ref[pool1][l], t.depth[pool1][l]>>
        c2 == <<t.ref[pool2][l], t.depth[pool2][l]>>
    IN  IF c1 \in FstCells /\ c2 \in FstCells
        THEN LocusFstTable[CellIndex(c1)][CellIndex(c2)]
        ELSE FstPerLocus(Freq(t, pool1, l), Freq(t, pool2, l),
                         t.depth[pool1][l], t.depth[pool2][l])

\* fst_per_locus over the qualifying loci q, as a sequence
RECURSIVE LocusFsts(_, _, _, _)
LocusFsts(t, pool1, pool2, q) ==
    IF q = <<>> THEN <<>>
    ELSE <<LocusFst(t, pool1, pool2, Head(q))>>
         \o LocusFsts(t, pool1, pool2, Tail(q))
\* line 97: weights = n1 + n2
RECURSIVE LocusWeights(_, _, _, _)
LocusWeights(t, pool1, pool2, q) ==
    IF q = <<>> THEN <<>>
    ELSE <<t.depth[pool1][Head(q)] + t.depth[pool2][Head(q)]>>
         \o LocusWeights(t, pool1, pool2, Tail(q))

\* np.sum(actual_fst_values * actual_weights) over the defined values
RECURSIVE WeightedSum(_, _)
WeightedSum(fsts, weights) ==
    IF fsts = <<>> THEN R(0)
    ELSE IF IsNaN(Head(fsts)) THEN WeightedSum(Tail(fsts), Tail(weights))
    ELSE Add(Mul(Head(fsts), R(Head(weights))),
             WeightedSum(Tail(fsts), Tail(weights)))
\* np.sum(actual_weights)
RECURSIVE WeightTotal(_, _)
WeightTotal(fsts, weights) ==
    IF fsts = <<>> THEN 0
    ELSE (IF IsNaN(Head(fsts)) THEN 0 ELSE Head(weights))
         + WeightTotal(Tail(fsts), Tail(weights))

\* a faulty average that gives every defined locus the same weight
WeightedFstSimpleMean(fsts, weights) ==
    LET defined == Compress(fsts, [k \in DOMAIN fsts |-> ~IsNaN(fsts[k])])
    IN  IF defined = <<>> THEN NaN
        ELSE Clip01(Div(RSum(defined), R(Len(defined))))
\* lines 97-108: the depth-weighted mean of the defined per-locus values
WeightedFst(fsts, weights) ==
    LET total == WeightTotal(fsts, weights)
    IN  IF (\A k \in DOMAIN fsts : IsNaN(fsts[k])) \/ total = 0 THEN NaN
        ELSE Clip01(Div(WeightedSum(fsts, weights), R(total)))

\* a faulty estimator without the minimum of lines 40-41
PairwiseFstNoMinimum(t, pool1, pool2, md) ==
    LET q == QualifyingLoci(t, pool1, pool2, md)
    IN  WeightedFst(LocusFsts(t, pool1, pool2, q), LocusWeights(t, pool1, pool2, q))

\* lines 29-108; the caller has checked HasColumns for both pools
calculate_pairwise_fst(t, pool1, pool2, md) ==
    LET q == QualifyingLoci(t, pool1, pool2, md)
    IN  IF Len(q) < MinQualifyingSnps THEN NaN
        ELSE WeightedFst(LocusFsts(t, pool1, pool2, q),
                         LocusWeights(t, pool1, pool2, q))

-----------------------------------------------------------------------------
(* create_fst_matrix, one step per pool pair.                              *)

ThirdPoolCells == {<<0, 0>>, <<1, 2>>, <<12, 12>>}
MinDepths == {1, 10}

\* the table whose first `split` loci read kindA and whose other loci read
\* kindB; a kind gives each pool its cell
RunTable(kindA, kindB, split, n) ==
    [n     |-> n,
     ref   |-> [p \in DOMAIN kindA |->
                   [l \in 1..n |-> IF l <= split THEN kindA[p][1] ELSE kindB[p][1]]],
     depth |-> [p \in DOMAIN kindA |->
                   [l \in 1..n |-> IF l <= split THEN kindA[p][2] ELSE kindB[p][2]]]]

\* valid three-pool tables; the third pool reads the same cell at every locus
FstTables ==
    {RunTable(<<a1, a2, c3>>, <<b1, b2, c3>>, split, MaxLoci) :
        a1 \in FstCells, a2 \in FstCells, b1 \in FstCells, b2 \in FstCells,
        c3 \in ThirdPoolCells, split \in 0..MaxSplit}

InitFst ==
    /\ pc = "fst_start"
    /\ df \in FstTables
    /\ min_depth \in MinDepths
    /\ fst_matrix = <<>>
    /\ pair_calls = <<>>
    /\ contents = NoTable
    /\ locus = NoLocus
    /\ parsed = NoResult
    /\ err = NoError
    /\ pca = NoPca
    /\ IdleQC

\* the pairs (i, j), i < j, in the order of the two loops of lines 126-128
RECURSIVE PairsFrom(_, _, _)
PairsFrom(i, j, n) ==
    IF i >= n THEN <<>>
    ELSE IF j > n THEN PairsFrom(i + 1, i + 2, n)
    ELSE <<<<i, j>>>> \o PairsFrom(i, j + 1, n)
LoopPairs(n) == PairsFrom(1, 2, n)

\* lines 119-124: the pools, and the matrix filled with NaN
FstStart ==
    /\ pc = "fst_start"
    /\ LET n == Len(extract_pool_names(df))
       IN  fst_matrix' = [i \in 1..n |-> [j \in 1..n |-> NaN]]
    /\ pc' = "fst_loop"
    /\ UNCHANGED <<qcVars, err, pca, df, min_depth, pair_calls, contents, locus, parsed>>

\* a faulty store that fills row i from column j on
StorePairRowFrom(m, i, j, fst) ==
    [m EXCEPT ![i] = [k \in DOMAIN m |->
                         IF k = i THEN R(0) ELSE IF k >= j THEN fst ELSE m[i][k]],
              ![j][i] = fst]
\* a faulty store that fills the upper triangle only
StorePairUpper(m, i, j, fst) == [m EXCEPT ![i][i] = R(0), ![i][j] = fst]

\* lines 131-132: the pair's value goes to cells (i, j) and (j, i)
StorePair(m, i, j, fst) ==
    [m EXCEPT ![i][i] = R(0), ![i][j] = fst, ![j][i] = fst]

\* lines 126-135 for the next pair (i, j): the diagonal cell of row i is set
\* when the row begins, which the model does with the row's first pair
FstPair ==
    /\ pc = "fst_loop"
    /\ Len(pair_calls) < Len(LoopPairs(Len(fst_matrix)))
    /\ LET pools == extract_pool_names(df)
           ij == LoopPairs(Len(fst_matrix))[Len(pair_calls) + 1]
           i == ij[1]
           j == ij[2]
       IN  /\ pair_calls' = Append(pair_calls, <<pools[i], pools[j]>>)
           /\ IF HasColumns(df, pools[i]) /\ HasColumns(df, pools[j])
              THEN /\ \E fst \in {calculate_pairwise_fst(df, pools[i], pools[j],
                                                         min_depth)} :
                          fst_matrix' = StorePair(fst_matrix, i, j, fst)
                   /\ UNCHANGED <<pc, err>>
              ELSE /\ Raise("Missing columns for pool")
                   /\ fst_matrix' = [fst_matrix EXCEPT ![i][i] = R(0)]
    /\ UNCHANGED <<qcVars, pca, df, min_depth, contents, locus, parsed>>

\* lines 126-127 for the rows that have no pair left, and lines 137-138
FstReturn ==
    /\ pc = "fst_loop"
    /\ Len(pair_calls) = Len(LoopPairs(Len(fst_matrix)))
    /\ fst_matrix' = [i \in DOMAIN fst_matrix |->
                         [fst_matrix[i] EXCEPT ![i] = R(0)]]
    /\ pc' = "fst_returned"
    /\ UNCHANGED <<qcVars, err, pca, df, min_depth, pair_calls, contents, locus, parsed>>

NextFst == FstStart \/ FstPair \/ FstReturn

SpecFst == InitFst /\ [][NextFst]_vars

-----------------------------------------------------------------------------
(* Lines 43-95 of calculate_pairwise_fst at one qualifying locus: the two  *)
(* pools' reference counts and depths, every intermediate array's element  *)
(* at the locus, and the branch of lines 86-93 that set fst_per_locus.     *)

MaxLocusDepth == 5

\* the cells a parsed table can hold at a qualifying locus: depth >= 1 and
\* reference count <= depth; parse_pooled_data lets a negative reference
\* count through
LocusCells ==
    {c \in ((-1)..MaxLocusDepth) \X (1..MaxLocusDepth) : c[1] <= c[2]}

InitLocus ==
    /\ pc = "locus_start"
    /\ \E c1 \in LocusCells, c2 \in LocusCells :
           locus = [ref1 |-> c1[1], n1 |-> c1[2], ref2 |-> c2[1], n2 |-> c2[2]]
    /\ df = NoTable
    /\ min_depth = 0
    /\ fst_matrix = <<>>
    /\ pair_calls = <<>>
    /\ contents = NoTable
    /\ parsed = NoResult
    /\ err = NoError
    /\ pca = NoPca
    /\ IdleQC

\* lines 18-26 and 43-46: the frequencies of the two pools at the locus
LocusFrequencies ==
    /\ pc = "locus_start"
    /\ locus' = [ref1 |-> locus.ref1, n1 |-> locus.n1,
                 ref2 |-> locus.ref2, n2 |-> locus.n2,
                 p1 |-> Frac(locus.ref1, locus.n1),
                 p2 |-> Frac(locus.ref2, locus.n2)]
    /\ pc' = "locus_components"
    /\ UNCHANGED <<qcVars, err, pca, df, min_depth, fst_matrix, pair_calls,
                   contents, parsed>>

\* lines 50-77: s2, nc_val, the correction term and the components a, b, c
LocusVariances ==
    /\ pc = "locus_components"
    /\ \E k \in {LocusComponents(locus.p1, locus.p2, locus.n1, locus.n2)} :
           locus' = [ref1 |-> locus.ref1, n1 |-> locus.n1,
                     ref2 |-> locus.ref2, n2 |-> locus.n2,
                     p1 |-> locus.p1, p2 |-> locus.p2,
                     s2 |-> k.s2, nc_val |-> NcVal(locus.n1, locus.n2),
                     a |-> k.a, b |-> k.b, c |-> k.c]
    /\ pc' = "locus_ratio"
    /\ UNCHANGED <<qcVars, err, pca, df, min_depth, fst_matrix, pair_calls,
                   contents, parsed>>

\* lines 84-93: which of the three masks holds the locus, if any
LocusBranch(num, den) ==
    IF IsNaN(num) \/ IsNaN(den) THEN "undefined"
    ELSE IF ~IsZero(den) THEN "calc"
    ELSE IF IsZero(num) THEN "zero_zero" ELSE "zero_nonzero"

\* lines 79-95: numerator, denominator, the ratio or its special value, and
\* the clip
LocusRatio ==
    /\ pc = "locus_ratio"
    /\ \E num \in {NumeratorFst(locus)}, den \in {DenominatorFst(locus)} :
       \E raw \in {RawLocusFst(num, den)} :
           locus' = [ref1 |-> locus.ref1, n1 |-> locus.n1,
                     ref2 |-> locus.ref2, n2 |-> locus.n2,
                     p1 |-> locus.p1, p2 |-> locus.p2,
                     s2 |-> locus.s2, nc_val |-> locus.nc_val,
                     a |-> locus.a, b |-> locus.b, c |-> locus.c,
                     numerator_fst |-> num, denominator_fst |-> den,
                     branch |-> LocusBranch(num, den),
                     divided |-> ~IsNaN(num) /\ ~IsNaN(den) /\ ~IsZero(den),
                     unclipped |-> raw,
                     fst_per_locus |-> Clip01(raw)]
    /\ pc' = "locus_done"
    /\ UNCHANGED <<qcVars, err, pca, df, min_depth, fst_matrix, pair_calls,
                   contents, parsed>>

NextLocus == LocusFrequencies \/ LocusVariances \/ LocusRatio

SpecLocus == InitLocus /\ [][NextLocus]_vars

\* calculate_pairwise_fst seen at one locus or through create_fst_matrix
\* on a whole table
InitEstimator == InitLocus \/ InitFst
NextEstimator == NextLocus \/ NextFst
SpecEstimator == InitEstimator /\ [][NextEstimator]_vars

-----------------------------------------------------------------------------
(* parse_pooled_data, then analyze_fst_from_pooled_data on what it         *)
(* returned, as the two callbacks of app.py chain them.  Every cell of the *)
(* file is a number, so pd.to_numeric leaves no NaN.                       *)

MaxParseRows == 2
ParsePools == {1, 2}
ParseCells == (-1)..1

\* the files: any subset of the reference_count_ columns and any subset of
\* the pool_depth_ columns, over 0..MaxParseRows rows
ParseTables ==
    UNION {[n : {n}, ref : [rp -> [1..n -> ParseCells]],
            depth : [dp -> [1..n -> ParseCells]]] :
              n \in 0..MaxParseRows, rp \in SUBSET ParsePools,
              dp \in SUBSET ParsePools}

InitParse ==
    /\ pc = "parse"
    /\ contents \in ParseTables
    /\ locus = NoLocus
    /\ min_depth \in MinDepths
    /\ df = NoTable
    /\ fst_matrix = <<>>
    /\ pair_calls = <<>>
    /\ parsed = NoResult
    /\ err = NoError
    /\ pca = NoPca
    /\ IdleQC

\* data_processing.py lines 249-287: the message of the first check that
\* fails, or NoError
ParseError(t) ==
    IF t.n = 0 THEN "Berkas pooled data kosong."
    ELSE IF DOMAIN t.ref = {} \/ DOMAIN t.depth = {}
    THEN "Berkas tidak memiliki kolom reference_count_ atau pool_depth_ yang diperlukan."
    ELSE IF \E p \in DOMAIN t.depth : \E l \in 1..t.n : t.depth[p][l] < 0
    THEN "Kolom kedalaman berisi nilai negatif yang tidak valid."
    ELSE IF \E p \in DOMAIN t.ref \cap DOMAIN t.depth :
               \E l \in 1..t.n : t.ref[p][l] > t.depth[p][l]
    THEN "ditemukan reference_count > pool_depth pada beberapa baris"
    ELSE NoError

\* data_processing.py lines 236-295: (None, message) or (the table, message)
ParsePooledData ==
    /\ pc = "parse"
    /\ \E e \in {ParseError(contents)} :
           /\ parsed' = [returned |-> TRUE,
                         table |-> IF e = NoError THEN contents ELSE NoTable,
                         message |-> e]
           /\ pc' = IF e = NoError THEN "parsed" ELSE "parse_rejected"
    /\ UNCHANGED <<qcVars, err, pca, df, min_depth, fst_matrix, pair_calls, contents, locus>>

\* app.py lines 435-443, data_processing.py lines 298-302: the stored table
\* is read back and handed to create_fst_matrix
AnalyzeFst ==
    /\ pc = "parsed"
    /\ df' = parsed.table
    /\ pc' = "fst_start"
    /\ UNCHANGED <<qcVars, err, pca, min_depth, fst_matrix, pair_calls, contents, locus, parsed>>

NextParse == ParsePooledData \/ AnalyzeFst \/ FstStart \/ FstPair \/ FstReturn

SpecParse == InitParse /\ [][NextParse]_vars

-----------------------------------------------------------------------------
(* Properties of apply_quality_control, checked under SpecQC.              *)

NonIncreasing(sh) ==
    \A k \in 1..(Len(sh) - 1) : sh[k + 1][1] <= sh[k][1] /\ sh[k + 1][2] <= sh[k][2]

\* C1: after each completed stage (biallelic, MAF, variant missingness,
\* sample missingness) the variant count and the sample count are no larger
\* than before it, and when apply_quality_control returns, the retained
\* sample list is no longer than the original one and the variant count
\* after QC is no larger than the original one.
C1_CountersNonIncreasing ==
    /\ NonIncreasing(shapes)
    /\ qc_result.returned =>
          /\ Len(qc_result.samples_after_qc) <= qc_result.samples_original_count
          /\ qc_result.snps_after_qc_count <= qc_result.snps_original_count
          /\ qc_result.samples_original_count = shapes[1][2]
          /\ qc_result.snps_original_count = shapes[1][1]
          /\ Len(qc_result.samples_after_qc) = shapes[Len(shapes)][2]
          /\ qc_result.snps_after_qc_count = shapes[Len(shapes)][1]

\* a returning run in which all four stages completed, a variant was removed
\* and a sample was removed
C1_Witness ==
    /\ qc_result.returned
    /\ Len(shapes) = 5
    /\ qc_result.snps_after_qc_count < qc_result.snps_original_count
    /\ Len(qc_result.samples_after_qc) < qc_result.samples_original_count

\* the sum of the called dosages of a variant, counted by dosage value
CalledDosageSum(row) ==
    Cardinality({j \in DOMAIN row : NAlt(row[j]) = 1})
    + 2 * Cardinality({j \in DOMAIN row : NAlt(row[j]) = 2})
CalledCount(row) == Cardinality({j \in DOMAIN row : NAlt(row[j]) >= 0})

\* C2: when apply_quality_control returns, every cell of the imputed matrix
\* is a number (not NaN), is non-negative and so is not the sentinel -1, and
\* every cell whose call was missing holds the mean dosage of its variant
\* over the retained samples that have a call.
C2_ImputedCellsFinite ==
    qc_result.returned =>
        LET out == qc_result.gn_imputed_transposed
            kept == KeptByImputer(gt_qc)
        IN  \A j \in DOMAIN out : \A k \in DOMAIN out[j] :
                /\ ~IsNaN(out[j][k])
                /\ Ge(out[j][k], R(0))
                /\ IsMissingCall(gt_qc[kept[k]][j]) =>
                      Mul(out[j][k], R(CalledCount(gt_qc[kept[k]])))
                          = R(CalledDosageSum(gt_qc[kept[k]]))

\* a returned matrix in which a missing call was replaced by the mean 1/2 of
\* two differing called dosages
C2_Witness ==
    /\ qc_result.returned
    /\ \E j \in DOMAIN qc_result.gn_imputed_transposed :
       \E k \in DOMAIN qc_result.gn_imputed_transposed[j] :
           /\ IsMissingCall(gt_qc[KeptByImputer(gt_qc)[k]][j])
           /\ qc_result.gn_imputed_transposed[j][k] = Frac(1, 2)

\* every variant is monomorphic: its called alleles are all the same
AllMonomorphic(m) == \A i \in DOMAIN m : Cardinality(ObservedAlleles(m[i])) <= 1

\* C6 as stated: on a matrix whose variants are all monomorphic,
\* apply_quality_control fails with the "No SNPs passed MAF filter" error of
\* the MAF stage.
C6_FailsAtMafStage ==
    (AllMonomorphic(gt) /\ pc # "biallelic") =>
        (pc = "raised" /\ err = "No SNPs passed MAF filter")

\* C6: on a matrix whose variants are all monomorphic, apply_quality_control
\* fails at the biallelic stage with "No biallelic SNPs found", before the
\* MAF filter is evaluated, for every threshold setting.
C6_FailsAtBiallelicStage ==
    (AllMonomorphic(gt) /\ pc # "biallelic") =>
        /\ pc = "raised"
        /\ err = "No biallelic SNPs found"
        /\ maf_attempts = 0
        /\ Len(shapes) = 1

\* a failed run on three monomorphic variants, of which one is fixed for the
\* reference allele and one for the alternate allele
C6_Witness ==
    /\ pc = "raised"
    /\ Len(gt) = 3
    /\ AllMonomorphic(gt)
    /\ \E i \in DOMAIN gt : ObservedAlleles(gt[i]) = {0}
    /\ \E i \in DOMAIN gt : ObservedAlleles(gt[i]) = {1}

\* the first QC stage whose filter leaves nothing: 1 biallelic, 2 MAF,
\* 3 variant missingness, 4 sample missingness; 0 when a stage has not
\* run yet or none is empty
EmptyStage ==
    IF pc = "biallelic" THEN 0
    ELSE IF BiallelicFilter(gt) = <<>> THEN 1
    ELSE IF pc = "maf" THEN 0
    ELSE IF MafFilter(gt_bi, thresholds.maf).kept = <<>> THEN 2
    ELSE IF pc = "snp_missing" THEN 0
    ELSE IF SnpMissingFilter(gt_maf, thresholds.snp_missing) = <<>> THEN 3
    ELSE IF pc = "ind_missing" THEN 0
    ELSE IF \A j \in 1..NumSamples(gt_snp_filtered) :
                ~IndMissingMask(gt_snp_filtered, thresholds.ind_missing)[j] THEN 4
    ELSE 0

\* C13: once a QC stage is left with no survivor (after its fallback),
\* apply_quality_control has raised, no later stage has produced anything
\* and nothing is returned; a returned result went through all four stages
\* and no stage on the way left an empty matrix.
C13_EmptyStageIsTerminal ==
    /\ \A k \in DOMAIN shapes : shapes[k][1] >= 1 /\ shapes[k][2] >= 1
    /\ pc = "raised" => (qc_result = NoResult /\ err # NoError)
    /\ qc_result.returned =>
          /\ Len(shapes) = 5
          /\ Len(qc_result.gn_imputed_transposed) >= 1
          /\ Len(qc_result.samples_after_qc) >= 1
    /\ \E empty \in {EmptyStage} :
          /\ qc_result.returned => empty = 0
          /\ empty # 0 =>
                /\ pc = "raised"
                /\ Len(shapes) = empty
                /\ empty <= 1 => (gt_maf = <<>> /\ maf_attempts = 0)
                /\ empty <= 2 => gt_snp_filtered = <<>>
                /\ empty <= 3 => (gt_qc = <<>> /\ samples_after_qc = <<>>)

\* the variant-missingness stage of a three-variant run was left with
\* nothing: the run has raised there and the sample stage has not run
C13_Witness ==
    /\ pc = "raised"
    /\ Len(gt) = 3
    /\ EmptyStage = 3
    /\ err = "No SNPs passed missingness filter"
    /\ Len(shapes) = 3
    /\ gt_qc = <<>>

\* the rows of m whose index is in S, in the order of m
RowsAt(m, S) ==
    [k \in 1..Cardinality(S) |->
        m[CHOOSE i \in S : Cardinality({j \in S : j < i}) = k - 1]]

\* the variants of gt whose observed alleles are exactly {0, 1}; and those
\* with two observed alleles of any coding
Coded01 == {i \in DOMAIN gt : ObservedAlleles(gt[i]) = {0, 1}}
TwoAlleles == {i \in DOMAIN gt : Cardinality(ObservedAlleles(gt[i])) = 2}

\* C16: once the biallelic stage has run, it has retained exactly the
\* variants coded {0, 1} if there is one; else exactly the variants with two
\* observed alleles if there is one; else QC has failed with the "no
\* biallelic SNPs" error, and that error has no other cause.
C16_StrictThenFallback ==
    pc # "biallelic" =>
        /\ Coded01 # {} => gt_bi = RowsAt(gt, Coded01)
        /\ (Coded01 = {} /\ TwoAlleles # {}) => gt_bi = RowsAt(gt, TwoAlleles)
        /\ TwoAlleles = {} =>
              (pc = "raised" /\ err = "No biallelic SNPs found" /\ gt_bi = <<>>)
        /\ err = "No biallelic SNPs found" => TwoAlleles = {}

\* the stage has run on a first variant coded {1, 2} and a second coded
\* {0, 1} and has retained the second only
C16_Witness ==
    /\ pc = "maf"
    /\ Len(gt) = 2
    /\ ObservedAlleles(gt[1]) = {1, 2}
    /\ ObservedAlleles(gt[2]) = {0, 1}
    /\ gt_bi = <<gt[2]>>

\* the MAF stage has run
MafRan == Len(shapes) >= 2 /\ pc # "maf"

\* the variants of gt_bi whose frequency of allele 1 among the called
\* alleles is strictly between tn/td and 1 - tn/td
InsideMaf(tn, td) ==
    {i \in DOMAIN gt_bi :
        /\ tn * CalledAlleles(gt_bi[i]) < AlleleCount(gt_bi[i], 1) * td
        /\ AlleleCount(gt_bi[i], 1) * td < (td - tn) * CalledAlleles(gt_bi[i])}

\* C17: the MAF filter is evaluated at most twice; once it has run, it has
\* retained exactly the variants with maf_threshold < f < 1 - maf_threshold
\* in one attempt if there is one; else, in a second attempt, exactly those
\* with maf_threshold/2 < f < 1 - maf_threshold/2 if there is one; else QC
\* has failed at this stage.
C17_TwoAttempts ==
    /\ maf_attempts \in 0..2
    /\ ~MafRan => (maf_attempts = 0 /\ gt_maf = <<>>)
    /\ MafRan =>
          \E tn \in {thresholds.maf[1]}, td \in {thresholds.maf[2]} :
             IF InsideMaf(tn, td) # {}
             THEN /\ maf_attempts = 1
                  /\ gt_maf = RowsAt(gt_bi, InsideMaf(tn, td))
             ELSE /\ maf_attempts = 2
                  /\ IF InsideMaf(tn, 2 * td) # {}
                     THEN gt_maf = RowsAt(gt_bi, InsideMaf(tn, 2 * td))
                     ELSE /\ pc = "raised"
                          /\ Len(shapes) = 2
                          /\ gt_maf = <<>>

\* at threshold 1/2 the first attempt retained nothing and the second, at
\* 1/4, dropped a variant of frequency exactly 1/4 and retained one of
\* frequency 1/2
C17_Witness ==
    /\ pc = "snp_missing"
    /\ thresholds.maf = Frac(1, 2)
    /\ maf_attempts = 2
    /\ Len(gt_bi) = 2
    /\ Aaf(gt_bi[1]) = Frac(1, 4)
    /\ Aaf(gt_bi[2]) = Frac(1, 2)
    /\ gt_maf = <<gt_bi[2]>>

\* C18 as stated: whenever both MAF attempts retain nothing, QC fails with
\* the MAF-stage error that reports the maximum frequency below 0.5, also
\* when no variant has a frequency below 0.5.
C18_MafErrorReported ==
    (MafRan /\ gt_maf = <<>>) =>
        (pc = "raised" /\ err = "No SNPs passed MAF filter")

\* at threshold 1/2 both attempts have dropped the only variant, of
\* frequency 3/4, and the failure is numpy's, not the MAF stage's
C18_ReductionErrorRaised ==
    /\ pc = "raised"
    /\ thresholds.maf = Frac(1, 2)
    /\ maf_attempts = 2
    /\ Len(gt_bi) = 1
    /\ Aaf(gt_bi[1]) = Frac(3, 4)
    /\ err = "zero-size array to reduction operation maximum"

\* the per-variant missingness stage has run
SnpMissingRan == Len(shapes) >= 3 /\ pc # "snp_missing"

\* the number of original samples whose call at the variant is missing
MissingAmongOriginal(row) ==
    Cardinality({j \in DOMAIN samples_original : row[j][1] < 0 \/ row[j][2] < 0})

\* the variants of gt_maf whose missing fraction over the original samples
\* is strictly below tn/td
BelowSnpMissing(tn, td) ==
    {i \in DOMAIN gt_maf :
        MissingAmongOriginal(gt_maf[i]) * td < tn * Len(samples_original)}

\* C19: once the per-variant missingness stage has run, it has retained
\* exactly the MAF survivors whose missing fraction over all original
\* samples is strictly below snp_missing_threshold; if there is none, and
\* always at threshold 0, QC has failed with the error of this stage, which
\* reports the minimum missingness.
C19_StrictlyBelowThreshold ==
    /\ ~SnpMissingRan => gt_snp_filtered = <<>>
    /\ SnpMissingRan =>
          /\ \A i \in DOMAIN gt_maf : Len(gt_maf[i]) = Len(samples_original)
          /\ \E low \in {BelowSnpMissing(thresholds.snp_missing[1],
                                           thresholds.snp_missing[2])} :
                IF low # {}
                THEN gt_snp_filtered = RowsAt(gt_maf, low)
                ELSE /\ pc = "raised"
                     /\ err = "No SNPs passed missingness filter"
                     /\ gt_snp_filtered = <<>>
          /\ thresholds.snp_missing = R(0) =>
                (pc = "raised" /\ err = "No SNPs passed missingness filter")
    /\ err = "No SNPs passed missingness filter" =>
          (SnpMissingRan /\ Len(shapes) = 3)

\* at threshold 0 the stage has dropped a variant without any missing call,
\* whose fraction 0 equals the threshold, and QC has failed
C19_Witness ==
    /\ pc = "raised"
    /\ thresholds.snp_missing = R(0)
    /\ Len(gt_maf) = 2
    /\ CountMissingRow(gt_maf[1]) = 0
    /\ CountMissingRow(gt_maf[2]) = 1
    /\ gt_snp_filtered = <<>>
    /\ err = "No SNPs passed missingness filter"

\* the per-sample missingness stage has run
IndMissingRan == Len(shapes) >= 4 /\ pc # "ind_missing"

\* the number of variants of m at which the call of sample j is missing
MissingOfSample(m, j) ==
    Cardinality({i \in DOMAIN m : m[i][j][1] < 0 \/ m[i][j][2] < 0})

\* the original samples whose missing fraction over the variants of
\* gt_snp_filtered is strictly below tn/td
BelowIndMissing(tn, td) ==
    {j \in DOMAIN samples_original :
        MissingOfSample(gt_snp_filtered, j) * td < tn * Len(gt_snp_filtered)}

\* C20: once the per-sample missingness stage has run, the retained samples
\* are exactly those whose missing fraction over the variants that survived
\* the per-variant stage is strictly below ind_missing_threshold; the
\* identifier list holds their original identifiers in original order, and
\* column r of the filtered genotypes and row r of the returned matrix are
\* those of the sample named at position r; if no sample is retained QC has
\* failed.
C20_SamplesAlignedWithRows ==
    /\ ~IndMissingRan => samples_after_qc = <<>>
    /\ IndMissingRan =>
          \E kept \in {BelowIndMissing(thresholds.ind_missing[1],
                                        thresholds.ind_missing[2])} :
             /\ samples_after_qc = RowsAt(samples_original, kept)
             /\ Len(gt_qc) = Len(gt_snp_filtered)
             /\ \A i \in DOMAIN gt_qc :
                    /\ Len(gt_qc[i]) = Len(samples_after_qc)
                    /\ \A r \in DOMAIN samples_after_qc :
                           gt_qc[i][r] = gt_snp_filtered[i][samples_after_qc[r]]
             /\ kept = {} =>
                    /\ pc = "raised"
                    /\ err = "No samples passed missingness filter"
             /\ qc_result.returned =>
                    /\ qc_result.samples_after_qc = samples_after_qc
                    /\ Len(qc_result.gn_imputed_transposed) = Cardinality(kept)
                    /\ \E variants \in {KeptByImputer(gt_qc)} :
                       \A r \in DOMAIN samples_after_qc :
                       \A k \in DOMAIN variants :
                          \E call \in {gt_snp_filtered[variants[k]][samples_after_qc[r]]} :
                             (call[1] >= 0 /\ call[2] >= 0) =>
                                qc_result.gn_imputed_transposed[r][k]
                                   = R((IF call[1] > 0 THEN 1 ELSE 0)
                                       + (IF call[2] > 0 THEN 1 ELSE 0))
    /\ err = "No samples passed missingness filter" =>
          (IndMissingRan /\ samples_after_qc = <<>>)

\* QC has returned samples 2 and 3 of three: sample 1 is missing at the
\* one variant that survived, though called at the other variant of the
\* callset
C20_Witness ==
    /\ qc_result.returned
    /\ Len(gt) = 2
    /\ Len(gt_snp_filtered) = 1
    /\ thresholds.ind_missing = R(1)
    /\ MissingOfSample(gt, 1) = 1
    /\ MissingOfSample(gt_snp_filtered, 1) = 1
    /\ qc_result.samples_after_qc = <<2, 3>>
    /\ Len(qc_result.gn_imputed_transposed) = 2

\* the dosages of the variant differ between two retained samples that are
\* called; mean imputation adds no variation to a variant
VariesAcrossSamples(row) ==
    \E j, k \in DOMAIN row :
        /\ NAlt(row[j]) >= 0
        /\ NAlt(row[k]) >= 0
        /\ NAlt(row[j]) # NAlt(row[k])

\* C21 as stated: apply_quality_control returns a matrix only if some
\* variant of the QC'd set varies across the retained samples; when each
\* variant is constant, whatever its constant, QC fails instead.
C21_ReturnsOnlyWithVariation ==
    qc_result.returned => \E i \in DOMAIN gt_qc : VariesAcrossSamples(gt_qc[i])

\* QC has returned two samples and two variants, the first with dosage 1 at
\* both samples and the second with dosage 0 at both
C21_ConstantVariantsReturned ==
    /\ qc_result.returned
    /\ Len(gt_qc) = 2
    /\ Len(qc_result.samples_after_qc) = 2
    /\ \A j \in 1..2 : NAlt(gt_qc[1][j]) = 1 /\ NAlt(gt_qc[2][j]) = 0
    /\ qc_result.gn_imputed_transposed = <<<<R(1), R(0)>>, <<R(1), R(0)>>>>

\* C27 as stated: whenever apply_quality_control returns, the returned
\* matrix has one column per variant counted in snps_after_qc and one row
\* per returned sample identifier.
C27_ColumnsMatchCounter ==
    qc_result.returned =>
        /\ Len(qc_result.gn_imputed_transposed) = Len(qc_result.samples_after_qc)
        /\ \A r \in DOMAIN qc_result.gn_imputed_transposed :
               Len(qc_result.gn_imputed_transposed[r]) = qc_result.snps_after_qc_count

\* QC has returned one sample and counted three variants, of which the
\* matrix has two columns: the sample is missing at the first variant
C27_ColumnDropped ==
    /\ qc_result.returned
    /\ qc_result.snps_after_qc_count = 3
    /\ qc_result.samples_after_qc = <<2>>
    /\ NAlt(gt_qc[1][1]) = -1
    /\ Len(qc_result.gn_imputed_transposed[1]) = 2

-----------------------------------------------------------------------------
(* Properties of run_pca_analysis and of its caller, checked under SpecPCA.*)

Min3(a, b, c) == Min2(a, Min2(b, c))
PcaDone == pc \in {"pca_returned", "trigger_returned"}
\* run_pca_analysis is past its validation
PcaCounted == pc \in {"pca_scale", "pca_fit", "pca_check", "pca_returned",
                      "trigger_returned"}

\* C7 as stated: for n_samples >= 2, n_features >= 1 and every requested
\* count k, k <= 0 included, the number of components computed is at most
\* min(k, n_samples - 1, n_features).
C7_AtMostMinOfRequest ==
    (PcaDone /\ pca.n_samples >= 2 /\ pca.n_features >= 1) =>
        pca.variance_len <= Min3(pca.n_pca_components, pca.n_samples - 1,
                                 pca.n_features)

\* C7: for n_samples >= 2 and n_features >= 1 the number of components
\* computed, which is the number of coordinate columns and of variance
\* ratios, is min(k, n_samples - 1, n_features) for a requested count
\* k >= 1, and is 1 for a requested count k <= 0.
C7_AtMostMinOrOne ==
    (PcaDone /\ pca.n_samples >= 2 /\ pca.n_features >= 1) =>
        /\ pca.variance_len = pca.pcs_shape[2]
        /\ pca.n_pca_components >= 1 =>
              pca.variance_len = Min3(pca.n_pca_components, pca.n_samples - 1,
                                      pca.n_features)
        /\ pca.n_pca_components <= 0 => pca.variance_len = 1

\* run_pca_analysis called by itself with k = 0 on a 3 x 3 matrix returns one
\* component
C7_Witness ==
    /\ pc = "pca_returned"
    /\ pca.n_samples = 3
    /\ pca.n_features = 3
    /\ pca.n_pca_components = 0
    /\ pca.variance_len = 1

\* C8 as stated: when k > n_samples - 1 and n_features >= n_samples - 1,
\* neither function raises and both use exactly n_samples - 1 components.
C8_ExactlySamplesMinusOne ==
    (pca.n_pca_components > pca.n_samples - 1
        /\ pca.n_features >= pca.n_samples - 1) =>
        /\ pc # "raised"
        /\ (pca.caller = "trigger" /\ pca.called) =>
              pca.n_components = pca.n_samples - 1
        /\ PcaCounted => pca.actual_n_components = pca.n_samples - 1
        /\ PcaDone => pca.variance_len = pca.n_samples - 1

\* C8: when n_samples >= 2, k > n_samples - 1 and n_features >=
\* n_samples - 1, neither trigger_analysis_pipeline nor run_pca_analysis
\* raises, the caller asks for exactly n_samples - 1 components and
\* run_pca_analysis computes exactly n_samples - 1.
C8_ExactlySamplesMinusOneFromTwo ==
    (pca.n_samples >= 2 /\ pca.n_pca_components > pca.n_samples - 1
        /\ pca.n_features >= pca.n_samples - 1) =>
        /\ pc # "raised"
        /\ err = NoError
        /\ (pca.caller = "trigger" /\ pca.called) =>
              pca.n_components = pca.n_samples - 1
        /\ PcaCounted => pca.actual_n_components = pca.n_samples - 1
        /\ PcaDone => pca.variance_len = pca.n_samples - 1

\* k = 5 on 3 samples through trigger_analysis_pipeline: two components
C8_Witness ==
    /\ pc = "trigger_returned"
    /\ pca.n_samples = 3
    /\ pca.n_pca_components = 5
    /\ pca.n_features = 4
    /\ pca.num_pcs_generated = 2

\* C9: run_pca_analysis on fewer than 2 samples or on 0 features raises
\* before it standardises or decomposes anything and returns no coordinates
\* and no variance ratios; trigger_analysis_pipeline does not call
\* run_pca_analysis when fewer than 2 samples or 0 variants are left.
C9_DimensionErrorFirst ==
    (pca.n_samples < 2 \/ pca.n_features < 1) =>
        /\ ~pca.scaled
        /\ ~pca.fitted
        /\ pca.pcs_shape = <<>>
        /\ pca.variance_len = 0
        /\ pc \in {"trigger_pca", "pca_validate", "raised"}
        /\ pca.caller = "trigger" => ~pca.called
        /\ pc = "raised" =>
              err \in {"PCA requires at least 2 samples",
                       "PCA requires at least 1 feature (SNP)",
                       "Jumlah sampel tidak cukup untuk PCA setelah QC",
                       "Tidak ada SNP tersisa setelah QC"}

\* run_pca_analysis has refused a matrix of three samples and no feature
C9_Witness ==
    /\ pc = "raised"
    /\ pca.caller = "direct"
    /\ pca.n_samples = 3
    /\ pca.n_features = 0
    /\ err = "PCA requires at least 1 feature (SNP)"

C15_VarianceRatiosAreNumbers ==
    (pc = "pca_returned") =>
        /\ Len(pca.out.explained_variance_ratio) = pca.actual_n_components
        /\ \A i \in DOMAIN pca.out.explained_variance_ratio :
               ~pca.out.explained_variance_ratio[i].nan

\* run_pca_analysis has returned finite coordinates together with a NaN
\* variance ratio for a 2 x 2 matrix of constant features
C15_NanRatioReturned ==
    /\ pc = "pca_returned"
    /\ pca.n_samples = 2
    /\ pca.n_features = 2
    /\ pca.n_pca_components = 1
    /\ pca.out.pcs.finite
    /\ pca.out.explained_variance_ratio[1].nan

-----------------------------------------------------------------------------
(* Properties of create_fst_matrix, checked under SpecFst.                 *)

\* n1*p1*(1-p1) + n2*p2*(1-p2) for p = ref/n, from the integers
PooledHeterozygosity(ref1, n1, ref2, n2) ==
    Frac(ref1 * (n1 - ref1) * n2 + ref2 * (n2 - ref2) * n1, n1 * n2)
\* the components as the claim writes them
ClaimS2(ref1, n1, ref2, n2) ==
    Div(PooledHeterozygosity(ref1, n1, ref2, n2), R(n1 + n2 - 1))
ClaimB(ref1, n1, ref2, n2) ==
    Div(PooledHeterozygosity(ref1, n1, ref2, n2), R(2 * (n1 + n2) - 1))
ClaimNc(n1, n2) == Sub(R(n1 + n2), Frac(n1 * n1 + n2 * n2, n1 + n2))
ClaimA(ref1, n1, ref2, n2) ==
    Mul(Div(ClaimNc(n1, n2), Sub(ClaimNc(n1, n2), R(1))),
        Sub(ClaimS2(ref1, n1, ref2, n2), ClaimB(ref1, n1, ref2, n2)))
ClaimC(ref1, n1, ref2, n2) ==
    Frac((ref1 * n2 - ref2 * n1) * (ref1 * n2 - ref2 * n1), 2 * n1 * n1 * n2 * n2)
\* the components are defined: nc - 1 > 0
ComponentsDefined(n1, n2) == Gt(ClaimNc(n1, n2), R(1))

\* the loci of table t where pools p and q both have depth > 0 and
\* depth >= md
LociWithDepth(t, p, q, md) ==
    {l \in 1..t.n : /\ t.depth[p][l] > 0 /\ t.depth[q][l] > 0
                    /\ t.depth[p][l] >= md /\ t.depth[q][l] >= md}

\* the position of the pair of pools (i, j), i < j, in the loop order
PairDone(i, j) ==
    \E k \in DOMAIN pair_calls :
        pair_calls[k] = <<extract_pool_names(df)[i], extract_pool_names(df)[j]>>

\* C3: the matrix create_fst_matrix returns has 0 on its diagonal, has the
\* same value (or NaN in both places) at (i, j) and (j, i), and has every
\* entry that is not NaN within [0, 1].
C3_SymmetricZeroDiagonal ==
    pc = "fst_returned" =>
        \A i \in DOMAIN fst_matrix :
            /\ fst_matrix[i][i] = R(0)
            /\ \A j \in DOMAIN fst_matrix :
                   /\ fst_matrix[i][j] = fst_matrix[j][i]
                   /\ ~IsNaN(fst_matrix[i][j]) =>
                          /\ Ge(fst_matrix[i][j], R(0))
                          /\ Le(fst_matrix[i][j], R(1))

\* a returned matrix with the first pair strictly between 0 and 1 and the
\* pair of pools 1 and 3 either at 1 or undefined
C3_Witness ==
    /\ pc = "fst_returned"
    /\ Gt(fst_matrix[1][2], R(0)) /\ Lt(fst_matrix[1][2], R(1))
    /\ fst_matrix[2][1] = fst_matrix[1][2]
    /\ \/ fst_matrix[1][3] = R(1) /\ fst_matrix[3][1] = R(1)
       \/ IsNaN(fst_matrix[1][3]) /\ IsNaN(fst_matrix[3][1])

\* C4: for every pool pair with fewer than 10 loci at which both pools have
\* depth > 0 and depth >= min_depth, calculate_pairwise_fst returns NaN, and
\* once create_fst_matrix has handled the pair both of its cells are NaN.
C4_TooFewLociUndefined ==
    df # NoTable =>
        \A i \in 1..Len(extract_pool_names(df)) :
        \A j \in 1..Len(extract_pool_names(df)) :
            (i < j /\ Cardinality(LociWithDepth(df, extract_pool_names(df)[i],
                                                extract_pool_names(df)[j],
                                                min_depth)) < 10) =>
                /\ IsNaN(calculate_pairwise_fst(df, extract_pool_names(df)[i],
                                                extract_pool_names(df)[j],
                                                min_depth))
                /\ IsNaN(calculate_pairwise_fst(df, extract_pool_names(df)[j],
                                                extract_pool_names(df)[i],
                                                min_depth))
                /\ (PairDone(i, j) /\ pc # "raised") =>
                       IsNaN(fst_matrix[i][j]) /\ IsNaN(fst_matrix[j][i])

\* a returned matrix where the first pair, with 9 loci deep enough, is
\* undefined and the second pair, with all 11 loci, has a value
C4_Witness ==
    /\ pc = "fst_returned"
    /\ Cardinality(LociWithDepth(df, 1, 2, min_depth)) = 9
    /\ IsNaN(fst_matrix[1][2]) /\ IsNaN(fst_matrix[2][1])
    /\ Cardinality(LociWithDepth(df, 1, 3, min_depth)) = MaxLoci
    /\ ~IsNaN(fst_matrix[1][3])

\* pool p has no reference read and pool q only reference reads at every
\* locus at which both have depth > 0 and depth >= md
FixedDifferentiated(t, p, q, md) ==
    \A l \in LociWithDepth(t, p, q, md) :
        t.ref[p][l] = 0 /\ t.ref[q][l] = t.depth[q][l]

\* C5: with min_depth = 10, a pair of pools with at least 10 qualifying loci
\* at all of which the first pool has reference frequency 0 and the second
\* reference frequency 1 gets the FST entry 1, whatever the depths.
C5_FixedDifferencesGiveOne ==
    (pc = "fst_returned" /\ min_depth = 10) =>
        \A i \in DOMAIN fst_matrix : \A j \in DOMAIN fst_matrix :
            (i # j /\ Cardinality(LociWithDepth(df, i, j, 10)) >= 10
                   /\ FixedDifferentiated(df, i, j, 10)) =>
                fst_matrix[i][j] = R(1)

\* pools 1 and 2 fixed for different alleles at 11 loci of depths 10 and 12
C5_Witness ==
    /\ pc = "fst_returned"
    /\ min_depth = 10
    /\ Cardinality(LociWithDepth(df, 1, 2, 10)) = MaxLoci
    /\ FixedDifferentiated(df, 1, 2, 10)
    /\ \E l \in 1..df.n : df.depth[1][l] = 10 /\ df.depth[2][l] = 12
    /\ \E l \in 1..df.n : df.depth[1][l] = 12 /\ df.depth[2][l] = 12
    /\ fst_matrix[1][2] = R(1)

\* table t with the cell <<reference_count, pool_depth>> of pool p at locus
\* l replaced by c
WithCell(t, p, l, c) ==
    [t EXCEPT !.ref[p][l] = c[1], !.depth[p][l] = c[2]]

\* C22: a locus at which one of the two pools has depth 0 or depth below
\* min_depth does not contribute to the pair's FST: replacing the reference
\* count and depth of either pool at such a locus, so that the locus still
\* is not one where both pools have depth > 0 and depth >= min_depth, gives
\* the same pair value as the one create_fst_matrix stored.  The loci tried
\* are the first and the last of the table and the last that can differ
\* from the last.
C22_OnlyQualifyingLociCount ==
    pc = "fst_returned" =>
        \A i \in DOMAIN fst_matrix : \A j \in DOMAIN fst_matrix :
            i < j =>
                \A l \in {1, MaxSplit, df.n} \ LociWithDepth(df, i, j, min_depth) :
                \A p \in {i, j} : \A c \in FstCells :
                \E changed \in {WithCell(df, p, l, c)} :
                    l \notin LociWithDepth(changed, i, j, min_depth) =>
                        calculate_pairwise_fst(changed, i, j, min_depth)
                            = fst_matrix[i][j]

\* a returned matrix whose first pair has the value 1 from ten loci of
\* depth >= 10, while at the first locus pool 1 has two reads
C22_Witness ==
    /\ pc = "fst_returned"
    /\ min_depth = 10
    /\ df.depth[1][1] = 2
    /\ df.depth[2][1] = 12
    /\ Cardinality(LociWithDepth(df, 1, 2, 10)) = 10
    /\ fst_matrix[1][2] = R(1)

\* the per-locus FST of pools p and q at locus l of table t in the claim's
\* terms; NaN where the components are not defined
ClaimLocusFst(t, p, q, l) ==
    IF ~ComponentsDefined(t.depth[p][l], t.depth[q][l]) THEN NaN
    ELSE LET s2 == ClaimS2(t.ref[p][l], t.depth[p][l], t.ref[q][l], t.depth[q][l])
             num == Add(Add(ClaimA(t.ref[p][l], t.depth[p][l],
                                   t.ref[q][l], t.depth[q][l]),
                            ClaimB(t.ref[p][l], t.depth[p][l],
                                   t.ref[q][l], t.depth[q][l])),
                        ClaimC(t.ref[p][l], t.depth[p][l],
                               t.ref[q][l], t.depth[q][l]))
         IN  IF ~IsZero(Add(num, s2)) THEN Clip01(Div(num, Add(num, s2)))
             ELSE IF IsZero(num) THEN R(0) ELSE R(1)

\* the sum over the loci of L of (depth of p + depth of q) * per-locus FST,
\* and of the depths alone
RECURSIVE ClaimWeightedSum(_, _, _, _)
ClaimWeightedSum(t, p, q, L) ==
    IF L = {} THEN R(0)
    ELSE LET l == CHOOSE x \in L : TRUE
         IN  Add(Mul(R(t.depth[p][l] + t.depth[q][l]), ClaimLocusFst(t, p, q, l)),
                 ClaimWeightedSum(t, p, q, L \ {l}))
RECURSIVE ClaimWeights(_, _, _, _)
ClaimWeights(t, p, q, L) ==
    IF L = {} THEN 0
    ELSE LET l == CHOOSE x \in L : TRUE
         IN  t.depth[p][l] + t.depth[q][l] + ClaimWeights(t, p, q, L \ {l})

\* C25: for a pair with at least 10 qualifying loci, the stored statistic is
\* sum(w * fst) / sum(w) clipped to [0, 1] over exactly the qualifying loci
\* whose per-locus value is defined, with w the two pools' depths added; it
\* is NaN only when no qualifying locus has a defined value.
C25_DepthWeightedMeanOfDefined ==
    pc = "fst_returned" =>
        \A i \in DOMAIN fst_matrix : \A j \in DOMAIN fst_matrix :
            (i < j /\ Cardinality(LociWithDepth(df, i, j, min_depth)) >= 10) =>
                \E defined \in {{l \in LociWithDepth(df, i, j, min_depth) :
                                    ~IsNaN(ClaimLocusFst(df, i, j, l))}} :
                    IF defined = {}
                    THEN IsNaN(fst_matrix[i][j])
                    ELSE fst_matrix[i][j] =
                             Clip01(Div(ClaimWeightedSum(df, i, j, defined),
                                        R(ClaimWeights(df, i, j, defined))))

\* at min_depth 1 the first pair has two loci of depth 1 in both pools,
\* whose value is undefined, and loci of depths 10 and 12, and its value is 1
C25_Witness ==
    /\ pc = "fst_returned"
    /\ min_depth = 1
    /\ df.depth[1][1] = 1 /\ df.depth[2][1] = 1
    /\ df.depth[1][2] = 1 /\ df.depth[2][2] = 1
    /\ df.depth[1][MaxLoci] = 10 /\ df.depth[2][MaxLoci] = 12
    /\ IsNaN(ClaimLocusFst(df, 1, 2, 1))
    /\ fst_matrix[1][2] = R(1)

\* table t with the cell c at every locus of pool k
WithColumn(t, k, c) ==
    [t EXCEPT !.ref[k] = [l \in 1..t.n |-> c[1]],
              !.depth[k] = [l \in 1..t.n |-> c[2]]]

\* C26: every unordered pair of pools is computed at most once, and once
\* the matrix is returned exactly once; the cells (p, q) and (q, p) hold the
\* NaN of the initial fill until their pair is computed and the pair's
\* value from then on; and the returned value of a pair is the value of
\* every table that differs only in the columns of another pool.
C26_PairReadsAndWritesItsOwn ==
    pc \in {"fst_loop", "fst_returned"} =>
        /\ \A a \in DOMAIN pair_calls : \A b \in DOMAIN pair_calls :
               a # b => /\ pair_calls[a] # pair_calls[b]
                        /\ pair_calls[a] # <<pair_calls[b][2], pair_calls[b][1]>>
        /\ \A i \in DOMAIN fst_matrix : \A j \in DOMAIN fst_matrix :
               i < j =>
                  /\ pc = "fst_returned" => PairDone(i, j)
                  /\ fst_matrix[j][i] = fst_matrix[i][j]
                  /\ fst_matrix[i][j] =
                        (IF PairDone(i, j)
                         THEN calculate_pairwise_fst(df, i, j, min_depth)
                         ELSE NaN)
                  /\ pc = "fst_returned" =>
                        \A k \in DOMAIN fst_matrix \ {i, j} : \A c \in FstCells :
                            calculate_pairwise_fst(WithColumn(df, k, c), i, j,
                                                   min_depth)
                                = fst_matrix[i][j]

\* the first pair has been computed and has the value 1, the cells of the
\* two pairs still to come hold NaN
C26_Witness ==
    /\ pc = "fst_loop"
    /\ pair_calls = <<<<1, 2>>>>
    /\ fst_matrix[1][2] = R(1) /\ fst_matrix[2][1] = R(1)
    /\ IsNaN(fst_matrix[1][3]) /\ IsNaN(fst_matrix[3][1])
    /\ IsNaN(fst_matrix[2][3]) /\ IsNaN(fst_matrix[3][2])
    /\ Cardinality(LociWithDepth(df, 1, 3, min_depth)) = MaxLoci

\* C28 as stated: in the returned matrix a pair with at least 10 qualifying
\* loci has a number in [0, 1], never NaN, at min_depth 1 with loci of depth
\* 1 included.
C28_EnoughLociGiveNumber ==
    pc = "fst_returned" =>
        \A i \in DOMAIN fst_matrix : \A j \in DOMAIN fst_matrix :
            (i # j /\ Cardinality(LociWithDepth(df, i, j, min_depth)) >= 10) =>
                /\ ~IsNaN(fst_matrix[i][j])
                /\ Ge(fst_matrix[i][j], R(0))
                /\ Le(fst_matrix[i][j], R(1))

\* at min_depth 1 the first two pools have one read, a reference read, at
\* each of the 11 loci; all 11 loci qualify and the pair's entry is NaN
C28_UndefinedWithEnoughLoci ==
    /\ pc = "fst_returned"
    /\ min_depth = 1
    /\ \A l \in 1..df.n : /\ df.ref[1][l] = 1 /\ df.depth[1][l] = 1
                          /\ df.ref[2][l] = 1 /\ df.depth[2][l] = 1
    /\ Cardinality(LociWithDepth(df, 1, 2, 1)) = MaxLoci
    /\ IsNaN(fst_matrix[1][2]) /\ IsNaN(fst_matrix[2][1])

\* pools p and q have the same reference count and the same depth at every
\* locus of t
IdenticalPools(t, p, q) ==
    \A l \in 1..t.n : t.ref[p][l] = t.ref[q][l] /\ t.depth[p][l] = t.depth[q][l]

\* C29 as stated: two distinct pools with identical counts and depths at
\* every locus and at least 10 qualifying loci have the off-diagonal entry
\* 0, as the diagonal has.
C29_IdenticalPoolsGiveZero ==
    pc = "fst_returned" =>
        \A i \in DOMAIN fst_matrix : \A j \in DOMAIN fst_matrix :
            (i # j /\ IdenticalPools(df, i, j)
                   /\ Cardinality(LociWithDepth(df, i, j, min_depth)) >= 10) =>
                /\ fst_matrix[i][j] = R(0)
                /\ fst_matrix[i][j] = fst_matrix[i][i]

\* at min_depth 1 the first two pools both have 1 reference read of 2 at
\* each of the 11 loci, and their entry is a number above 0
C29_IdenticalPoolsPositive ==
    /\ pc = "fst_returned"
    /\ min_depth = 1
    /\ IdenticalPools(df, 1, 2)
    /\ \A l \in 1..df.n : df.ref[1][l] = 1 /\ df.depth[1][l] = 2
    /\ Gt(fst_matrix[1][2], R(0))
    /\ fst_matrix[1][1] = R(0)

-----------------------------------------------------------------------------
(* Properties of one locus of calculate_pairwise_fst, checked under        *)
(* SpecLocus.                                                              *)

\* C23: at a qualifying locus with defined components, s2, b, a and c are
\* the claim's expressions of the counts and depths, and when a+b+c+s2 is
\* not zero the per-locus FST is (a+b+c)/(a+b+c+s2) clipped to [0, 1].
C23_LocusFstIsClippedRatio ==
    (pc = "locus_done" /\ ComponentsDefined(locus.n1, locus.n2)) =>
        \E s2 \in {ClaimS2(locus.ref1, locus.n1, locus.ref2, locus.n2)},
           b \in {ClaimB(locus.ref1, locus.n1, locus.ref2, locus.n2)},
           a \in {ClaimA(locus.ref1, locus.n1, locus.ref2, locus.n2)},
           c \in {ClaimC(locus.ref1, locus.n1, locus.ref2, locus.n2)} :
            /\ locus.s2 = s2 /\ locus.b = b /\ locus.a = a /\ locus.c = c
            /\ \E num \in {Add(Add(a, b), c)} :
                  ~IsZero(Add(num, s2)) =>
                      locus.fst_per_locus = Clip01(Div(num, Add(num, s2)))

\* a locus with 1 of 2 and 3 of 4 reference reads, whose value lies
\* strictly between 0 and 1
C23_Witness ==
    /\ pc = "locus_done"
    /\ locus.ref1 = 1 /\ locus.n1 = 2
    /\ locus.ref2 = 3 /\ locus.n2 = 4
    /\ ~IsZero(locus.denominator_fst)
    /\ Gt(locus.fst_per_locus, R(0)) /\ Lt(locus.fst_per_locus, R(1))

\* C24: at a qualifying locus with defined components whose denominator
\* a+b+c+s2 is exactly 0, the per-locus FST is 0 if the numerator a+b+c is
\* 0 and 1 if it is not; the locus is not in the mask that is divided, and
\* its value is a number.
C24_ZeroDenominatorHandled ==
    (pc = "locus_done" /\ ComponentsDefined(locus.n1, locus.n2)) =>
        \E num \in {Add(Add(ClaimA(locus.ref1, locus.n1, locus.ref2, locus.n2),
                             ClaimB(locus.ref1, locus.n1, locus.ref2, locus.n2)),
                         ClaimC(locus.ref1, locus.n1, locus.ref2, locus.n2))} :
            IsZero(Add(num, ClaimS2(locus.ref1, locus.n1, locus.ref2, locus.n2))) =>
                /\ locus.fst_per_locus = (IF IsZero(num) THEN R(0) ELSE R(1))
                /\ ~locus.divided
                /\ locus.branch \in {"zero_zero", "zero_nonzero"}
                /\ ~IsNaN(locus.fst_per_locus)

\* a locus where neither pool has a reference read, at depths 2 and 3:
\* numerator and denominator are 0 and the value is 0
C24_Witness ==
    /\ pc = "locus_done"
    /\ locus.ref1 = 0 /\ locus.n1 = 2
    /\ locus.ref2 = 0 /\ locus.n2 = 3
    /\ IsZero(locus.numerator_fst)
    /\ IsZero(locus.denominator_fst)
    /\ locus.branch = "zero_zero"
    /\ locus.fst_per_locus = R(0)

(* Checked under SpecEstimator.                                            *)

\* C30: with 0 <= reference_count <= pool_depth, at a qualifying locus with
\* defined components a, b, c and s2 are >= 0 and the numerator lies between
\* 0 and the denominator, the branch 'denominator zero, numerator nonzero'
\* is not taken and the per-locus clip changes nothing; and for a table of
\* such cells the same holds at the first and the last locus of a pair and
\* the pair's stored value is the weighted mean as it is before the clip.
C30_ClipsAreIdle ==
    /\ (pc = "locus_done" /\ locus.ref1 >= 0 /\ locus.ref2 >= 0
          /\ ComponentsDefined(locus.n1, locus.n2)) =>
            /\ Ge(locus.a, R(0)) /\ Ge(locus.b, R(0))
            /\ Ge(locus.c, R(0)) /\ Ge(locus.s2, R(0))
            /\ Ge(locus.numerator_fst, R(0))
            /\ Ge(Sub(locus.denominator_fst, locus.numerator_fst), R(0))
            /\ locus.branch \in {"calc", "zero_zero"}
            /\ locus.fst_per_locus = locus.unclipped
    /\ pc = "fst_returned" =>
          \A i \in DOMAIN fst_matrix : \A j \in DOMAIN fst_matrix :
              (i < j /\ Cardinality(LociWithDepth(df, i, j, min_depth)) >= 10) =>
                  \E defined \in {{l \in LociWithDepth(df, i, j, min_depth) :
                                      ComponentsDefined(df.depth[i][l],
                                                        df.depth[j][l])}} :
                      /\ \A l \in defined \cap {1, df.n} :
                         \E k \in {LocusComponents(Freq(df, i, l), Freq(df, j, l),
                                                    df.depth[i][l], df.depth[j][l])} :
                             /\ Ge(k.a, R(0)) /\ Ge(k.b, R(0))
                             /\ Ge(k.c, R(0)) /\ Ge(k.s2, R(0))
                             /\ Ge(NumeratorFst(k), R(0))
                             /\ Ge(Sub(DenominatorFst(k), NumeratorFst(k)), R(0))
                             /\ RawLocusFst(NumeratorFst(k), DenominatorFst(k))
                                   = FstOfComponents(k)
                      /\ defined # {} =>
                             fst_matrix[i][j] =
                                 Div(ClaimWeightedSum(df, i, j, defined),
                                     R(ClaimWeights(df, i, j, defined)))

\* a locus with 1 of 2 and 3 of 4 reference reads has four positive
\* components and a ratio strictly inside (0, 1) that the clip leaves alone
C30_Witness ==
    /\ pc = "locus_done"
    /\ locus.ref1 = 1 /\ locus.n1 = 2
    /\ locus.ref2 = 3 /\ locus.n2 = 4
    /\ Gt(locus.a, R(0)) /\ Gt(locus.b, R(0))
    /\ Gt(locus.c, R(0)) /\ Gt(locus.s2, R(0))
    /\ locus.branch = "calc"
    /\ Lt(locus.unclipped, R(1))
    /\ locus.fst_per_locus = locus.unclipped

-----------------------------------------------------------------------------
(* Properties of parse_pooled_data, checked under SpecParse.               *)

\* some cell of a pool that has both of its columns breaks
\* 0 <= reference_count <= pool_depth, or some pool_depth is negative
ViolatesCellInvariant(t) ==
    \/ \E p \in DOMAIN t.depth : \E l \in 1..t.n : t.depth[p][l] < 0
    \/ \E p \in DOMAIN t.ref \cap DOMAIN t.depth : \E l \in 1..t.n :
           t.ref[p][l] < 0 \/ t.ref[p][l] > t.depth[p][l]

\* C10: a table with a cell that breaks 0 <= reference_count <= pool_depth
\* or pool_depth >= 0, a negative reference_count included, is rejected by
\* parse_pooled_data, which returns no table, and is never handed to
\* create_fst_matrix.
C10_InvalidTableRejected ==
    ViolatesCellInvariant(contents) =>
        /\ parsed.returned => parsed.table = NoTable
        /\ df = NoTable
        /\ pc \in {"parse", "parse_rejected"}

\* a table with reference_count -1 at depth 1 has been accepted and
\* create_fst_matrix has returned a matrix for it
C10_NegativeCountAccepted ==
    /\ pc = "fst_returned"
    /\ df = contents
    /\ \E p \in DOMAIN df.ref \cap DOMAIN df.depth : \E l \in 1..df.n :
           df.ref[p][l] = -1 /\ df.depth[p][l] = 1

\* some declared pool has only one of its two columns
DeclaredPoolIncomplete(t) == DOMAIN t.ref # DOMAIN t.depth

\* C11: a table in which a declared pool lacks one of its two columns is
\* rejected by parse_pooled_data, which returns no table, so it is never
\* handed to create_fst_matrix, and the "Missing columns for pool" error is
\* never raised for a table parse_pooled_data accepted.
C11_IncompletePoolRejected ==
    /\ DeclaredPoolIncomplete(contents) =>
          /\ parsed.returned => parsed.table = NoTable
          /\ df = NoTable
    /\ err # "Missing columns for pool"

\* a table with both columns of pool 1 and only the reference_count column
\* of pool 2, free of invalid cells, has been accepted and the estimator has
\* raised "Missing columns for pool" on it
C11_MissingColumnsRaised ==
    /\ pc = "raised"
    /\ err = "Missing columns for pool"
    /\ parsed.table = contents
    /\ df = contents
    /\ DOMAIN contents.ref = {1, 2}
    /\ DOMAIN contents.depth = {1}
    /\ ~ViolatesCellInvariant(contents)

-----------------------------------------------------------------------------
(* read_vcf_for_analysis.  The file is known by what allel.read_vcf makes  *)
(* of it: None, a dictionary of arrays, or an exception.  A dictionary is  *)
(* known by the keys it has, the length of its 'samples' array and the     *)
(* shape of its 'calldata/GT' array.                                       *)

MaxNames == 2
MaxGtVariants == 2
MaxGtSamples == 2

Dictionaries ==
    [kind : {"dict"}, has_gt : BOOLEAN, has_samples : BOOLEAN,
     n_names : 0..MaxNames,
     gt_shape : (0..MaxGtVariants) \X (0..MaxGtSamples)]
LibraryErrors == {"codec can't decode byte", "not a valid VCF", "I/O error"}
ReadOutcomes ==
    Dictionaries \cup {NoCallset} \cup [kind : {"raises"}, message : LibraryErrors]

InitRead ==
    /\ pc = "read"
    /\ vcf \in [first : ReadOutcomes, second : ReadOutcomes]
    /\ callset = NoCallset
    /\ gt = <<>>
    /\ samples_original = <<>>
    /\ thresholds = <<>>
    /\ gt_bi = <<>>
    /\ gt_maf = <<>>
    /\ maf_attempts = 0
    /\ gt_snp_filtered = <<>>
    /\ gt_qc = <<>>
    /\ samples_after_qc = <<>>
    /\ qc_result = NoResult
    /\ shapes = <<>>
    /\ err = NoError
    /\ pca = NoPca
    /\ IdleFst

\* vcfFunctions.py lines 36-42: every exception leaves as a ValueError whose
\* message depends on the text of the original one
WrapReadError(m) ==
    CASE m = "codec can't decode byte" ->
             "VCF file encoding error. Please ensure the file is in UTF-8 format: codec can't decode byte"
      [] m = "not a valid VCF" -> "Invalid VCF file format: not a valid VCF"
      [] m = "I/O error" -> "Error reading VCF file: I/O error"
      [] m = "Unable to read VCF file" -> "Error reading VCF file: Unable to read VCF file"
      [] m = "VCF file does not contain genotype (GT) field" ->
             "Error reading VCF file: VCF file does not contain genotype (GT) field"
      [] m = "No samples found in VCF file" ->
             "Error reading VCF file: No samples found in VCF file"
      [] m = "No variants found in VCF file" ->
             "Error reading VCF file: No variants found in VCF file"
      [] m = "No samples found in genotype data" ->
             "Error reading VCF file: No samples found in genotype data"

\* the dictionary the checks of lines 19-32 look at
Delivered(v) == IF v.first.kind = "none" THEN v.second ELSE v.first

\* a faulty validation without the check of the variant count
CallsetErrorNoVariantCheck(c) ==
    IF c.kind = "none" THEN "Unable to read VCF file"
    ELSE IF ~c.has_gt THEN "VCF file does not contain genotype (GT) field"
    ELSE IF ~c.has_samples \/ c.n_names = 0 THEN "No samples found in VCF file"
    ELSE IF c.gt_shape[2] = 0 THEN "No samples found in genotype data"
    ELSE NoError

\* vcfFunctions.py lines 19-32: the message of the first check that fails
CallsetError(c) ==
    IF c.kind = "none" THEN "Unable to read VCF file"
    ELSE IF ~c.has_gt THEN "VCF file does not contain genotype (GT) field"
    ELSE IF ~c.has_samples \/ c.n_names = 0 THEN "No samples found in VCF file"
    ELSE IF c.gt_shape[1] = 0 THEN "No variants found in VCF file"
    ELSE IF c.gt_shape[2] = 0 THEN "No samples found in genotype data"
    ELSE NoError

\* line 14: the read with the four fields
ReadVcf ==
    /\ pc = "read"
    /\ IF vcf.first.kind = "raises"
       THEN Raise(WrapReadError(vcf.first.message))
       ELSE /\ pc' = IF vcf.first.kind = "none" THEN "read_again" ELSE "validate"
            /\ err' = err
    /\ UNCHANGED <<qcVars, pca, fstVars>>

\* lines 16-17: the read with all fields, when the first gave None
ReadVcfAgain ==
    /\ pc = "read_again"
    /\ IF vcf.second.kind = "raises"
       THEN Raise(WrapReadError(vcf.second.message))
       ELSE /\ pc' = "validate"
            /\ err' = err
    /\ UNCHANGED <<qcVars, pca, fstVars>>

\* lines 19-34: the checks and the return
ValidateCallset ==
    /\ pc = "validate"
    /\ \E e \in {CallsetError(Delivered(vcf))} :
           IF e # NoError
           THEN /\ Raise(WrapReadError(e))
                /\ UNCHANGED callset
           ELSE /\ callset' = Delivered(vcf)
                /\ pc' = "read_returned"
                /\ err' = err
    /\ UNCHANGED <<vcf, gt, samples_original, thresholds, gt_bi, gt_maf,
                   maf_attempts, gt_snp_filtered, gt_qc, samples_after_qc,
                   qc_result, shapes, pca, fstVars>>

NextRead == ReadVcf \/ ReadVcfAgain \/ ValidateCallset

SpecRead == InitRead /\ [][NextRead]_vars

-----------------------------------------------------------------------------
(* Properties of read_vcf_for_analysis, checked under SpecRead.            *)

\* the dictionary read from the source has no samples, no variants or no
\* genotype array, or nothing could be read
SourceDefective(c) ==
    \/ c.kind # "dict"
    \/ ~c.has_gt
    \/ ~c.has_samples \/ c.n_names = 0 \/ c.gt_shape[2] = 0
    \/ c.gt_shape[1] = 0

ReadEnded == pc \in {"read_returned", "raised"}

\* C12: when what scikit-allel reads from the source has no samples, no
\* variants or no GT array, read_vcf_for_analysis raises its error and
\* returns no callset; and a callset it returns has a GT array, at least one
\* variant and at least one sample.
C12_DefectiveSourceFails ==
    /\ (ReadEnded /\ SourceDefective(Delivered(vcf))) =>
          /\ pc = "raised"
          /\ err # NoError
          /\ callset = NoCallset
    /\ pc = "read_returned" =>
          /\ callset.kind = "dict"
          /\ callset.has_gt
          /\ callset.gt_shape[1] >= 1
          /\ callset.gt_shape[2] >= 1
          /\ callset.has_samples /\ callset.n_names >= 1
    /\ pc # "read_returned" => callset = NoCallset

\* the second read gave a GT array with two samples and no variant, and the
\* function raised its no-variants error
C12_Witness ==
    /\ pc = "raised"
    /\ vcf.first.kind = "none"
    /\ vcf.second.kind = "dict"
    /\ vcf.second.has_gt /\ vcf.second.has_samples
    /\ vcf.second.n_names = 2
    /\ vcf.second.gt_shape = <<0, 2>>
    /\ err = "Error reading VCF file: No variants found in VCF file"

=============================================================================
